---- MODULE Spec2Model ----
(***************************************************************************)
(* Authentication core of WebHelperWidget (src/api/app): token issuance,   *)
(* the authenticator gate, revocation through redis, account-state gating  *)
(* and the math-captcha step in front of destructive operations.           *)
(*                                                                         *)
(* Time is a discrete clock `now`.  A JWT is usable while now < exp (PyJWT *)
(* rejects exp <= now) and a redis key set with ex=d at time t is alive    *)
(* while now < t + d.                                                      *)
(***************************************************************************)
EXTENDS Integers, Sequences, FiniteSets, TLC

\* ------------------------------------------------------------------ bounds
MaxTime == 3        \* the clock runs 0..MaxTime
MaxJti == 4         \* at most MaxJti tokens are minted in a run
BlockEnd == 2       \* the instant a stored blocked_until names
MaxNum == 2         \* operands and results of a captcha problem: 1..MaxNum
MaxOperand == 10    \* the same range where the generator runs step by step

\* ----------------------------------------------------------- configuration
AccessExp == 2      \* app.config JWT_ACCESS_TOKEN_EXPIRES, in clock ticks
RefreshExp == 3     \* app.config JWT_REFRESH_TOKEN_EXPIRES, in clock ticks
CaptchaDuration == 1  \* app.config MATH_CAPTCHA_DURATION, in clock ticks
MailTokenExp == 2     \* app.config MAIL_TOKEN_EXP, in clock ticks

\* --------------------------------------------------------- response codes
Proceed == 0
Ok == 200
Created == 201
Accepted == 202
BadRequest == 400
Unauthorized == 401
Forbidden == 403
NotFound == 404
Conflict == 409
TooManyRequests == 429
Gone == 410
Unprocessable == 422
Locked == 423
InternalError == 500
ServiceUnavailable == 503

\* ------------------------------------------------------------- null values
NoTime == -1        \* a NULL DateTime column
NoJti == 0          \* no token / claim absent
NoUser == 0         \* get_user_by_* returned None
NoReason == "None"  \* a NULL String column
NoArg == <<"None">>  \* None where a text (a sequence of characters) may stand

VARIABLES
    users,      \* the users table: uuid -> row
    tokens,     \* every JWT minted so far (clients may present any of them)
    redis,      \* redis: blocklist: jti -> expiry instant (0 = no key);
                \*        captcha: account -> [val, exp] (exp = 0: no key)
    now,        \* the clock
    nextJti,    \* source of fresh jti values (uuid4 in the library)
    resp,       \* the response of the last request
    loggedOut,  \* history: the jtis whose Logout returned 200
    reqs,       \* requests in flight, when requests are interleaved step by step
    api_keys,   \* the api_keys table: uuid -> row
    performed,  \* history: the guarded operation that executed last
    mail_tokens \* every email-confirmation token issued so far

vars == <<users, tokens, redis, now, nextJti, resp, loggedOut, reqs,
          api_keys, performed, mail_tokens>>

\* ------------------------------------------------------------------ inputs
SeedEmail == "jon_don@gamil.com"
SeedPassword == "12345JonDon!"
Emails == {SeedEmail, "a@b.com"}
Passwords == {SeedPassword, "Abcdef1@"}

\* bcrypt: a one-way hash; check_password_hash(h, p) holds iff h was made from p
generate_password_hash(p) == <<"bcrypt", p>>
check_password_hash(h, p) == h = generate_password_hash(p)

\* ------------------------------------------------------------- users table
UserRow(email, pw, verified, deleted, blocked, reason, until) ==
    [email |-> email, password |-> pw, email_verified |-> verified,
     is_deleted |-> deleted, is_blocked |-> blocked,
     blocked_reason |-> reason, blocked_until |-> until,
     removal_reason |-> NoArg]

\* the rows the User model permits for the seeded account
UserStates ==
    { UserRow(SeedEmail, generate_password_hash(SeedPassword), v, d, b,
              IF b THEN "spam" ELSE NoReason, u) :
        v \in BOOLEAN, d \in BOOLEAN, b \in BOOLEAN, u \in {NoTime, BlockEnd} }

\* the row app/__init__.py seeds: verified, neither deleted nor blocked
SeedUser == UserRow(SeedEmail, generate_password_hash(SeedPassword),
                    TRUE, FALSE, FALSE, NoReason, NoTime)

get_user_by_email(us, email) ==
    IF \E u \in DOMAIN us : us[u].email = email
    THEN CHOOSE u \in DOMAIN us : us[u].email = email
    ELSE NoUser

get_user_by_uuid(us, uuid) ==
    IF uuid \in DOMAIN us THEN uuid ELSE NoUser

\* the uuids of the accounts a run holds
Accounts == {1}

\* ---------------------------------------------------------- api_keys table
SeedKeyUuid == "0b0e7c1a-5d3f-4a6b-9c2d-1e2f3a4b5c6d"
OtherUuid == "7a1d2c3b-4e5f-4a1b-8c9d-0e1f2a3b4c5d"

\* the key app/__init__.py creates for the seeded user
SeedApiKeys == (SeedKeyUuid :> [user_uuid |-> 1, is_deleted |-> FALSE])

get_api_key_by_uuid(ks, uuid) ==
    IF uuid \in DOMAIN ks THEN uuid ELSE "None"

NoOperation == [op |-> "none", sub |-> NoUser, answer |-> NoArg]

\* ------------------------------------------------------------------ tokens
NoToken ==
    [jti |-> NoJti, type |-> "none", sub |-> NoUser, fresh |-> FALSE,
     refresh_jti |-> NoJti, exp |-> 0]

create_refresh_token(identity, jti, t) ==
    [jti |-> jti, type |-> "refresh", sub |-> identity, fresh |-> FALSE,
     refresh_jti |-> NoJti, exp |-> t + RefreshExp]

\* mutant: the fresh argument is dropped
create_access_token_never_fresh(identity, fresh, refresh_jti, jti, t) ==
    [jti |-> jti, type |-> "access", sub |-> identity, fresh |-> FALSE,
     refresh_jti |-> refresh_jti, exp |-> t + AccessExp]

create_access_token(identity, fresh, refresh_jti, jti, t) ==
    [jti |-> jti, type |-> "access", sub |-> identity, fresh |-> fresh,
     refresh_jti |-> refresh_jti, exp |-> t + AccessExp]

TokenIn(S, j) == IF \E t \in S : t.jti = j
                 THEN CHOOSE t \in S : t.jti = j
                 ELSE NoToken

TokenOf(j) == TokenIn(tokens, j)

\* ------------------------------------------------------------------- redis
RedisGetJti(r, jti, t) == IF t < r.blocklist[jti] THEN "revoked" ELSE "None"

\* mutant: the key lives one tick less than ex
RedisSetJti_short(r, jti, ex, t) ==
    [r EXCEPT !.blocklist = [@ EXCEPT ![jti] = t + ex - 1]]

RedisSetJti(r, jti, ex, t) ==
    [r EXCEPT !.blocklist = [@ EXCEPT ![jti] = t + ex]]

\* the key account-{sub}-removal-captcha-answer
NoKey == [val |-> <<>>, exp |-> 0]

RedisGetCaptcha(r, sub, t) ==
    IF t < r.captcha[sub].exp THEN [found |-> TRUE, val |-> r.captcha[sub].val]
    ELSE [found |-> FALSE, val |-> <<>>]

\* mutant: SET ... NX, an existing key is kept
RedisSetCaptcha_nx(r, sub, val, ex, t) ==
    IF t < r.captcha[sub].exp THEN r
    ELSE [r EXCEPT !.captcha = [@ EXCEPT ![sub] = [val |-> val, exp |-> t + ex]]]

RedisSetCaptcha(r, sub, val, ex, t) ==
    [r EXCEPT !.captcha = [@ EXCEPT ![sub] = [val |-> val, exp |-> t + ex]]]

\* mutant: the delete misses the key
RedisDeleteCaptcha_miss(r, sub) == r

RedisDeleteCaptcha(r, sub) ==
    [r EXCEPT !.captcha = [@ EXCEPT ![sub] = NoKey]]

\* the key {email}-confirmation-token: the instant it expires (0 = no key)
MailEmails == {SeedEmail, "a@b.com", "x@y.net"}

RedisGetMail(r, email, t) == IF t < r.mail[email] THEN "marker" ELSE "None"

RedisSetMail(r, email, ex, t) ==
    [r EXCEPT !.mail = [@ EXCEPT ![email] = t + ex]]

\* keys whose time to live has run out are gone
RedisExpire(r, t) ==
    [blocklist |-> [j \in DOMAIN r.blocklist |->
                      IF t < r.blocklist[j] THEN r.blocklist[j] ELSE 0],
     captcha |-> [u \in DOMAIN r.captcha |->
                      IF t < r.captcha[u].exp THEN r.captcha[u] ELSE NoKey],
     mail |-> [e \in DOMAIN r.mail |->
                      IF t < r.mail[e] THEN r.mail[e] ELSE 0]]

EmptyRedis ==
    [blocklist |-> [j \in 1..(MaxJti + 1) |-> 0],
     captcha |-> [u \in Accounts |-> NoKey],
     mail |-> [e \in MailEmails |-> 0]]

check_if_token_is_revoked(r, jti, t) == RedisGetJti(r, jti, t) # "None"

\* -------------------------------------------------------------------- gate
\* mutant: the token type is never verified
verify_jwt_in_request_any_type(tok, fresh, refresh, verify_type, skip_revocation_check, r, t) ==
    IF tok.jti = NoJti THEN Unauthorized
    ELSE IF tok.exp <= t THEN Unauthorized
    ELSE IF fresh /\ ~tok.fresh THEN Unauthorized
    ELSE IF ~skip_revocation_check /\ t < r.blocklist[tok.jti] THEN Unauthorized
    ELSE Proceed

\* mutant: freshness is never verified
verify_jwt_in_request_any_freshness(tok, fresh, refresh, verify_type, skip_revocation_check, r, t) ==
    IF tok.jti = NoJti THEN Unauthorized
    ELSE IF tok.exp <= t THEN Unauthorized
    ELSE IF verify_type /\ ((tok.type = "refresh") # refresh) THEN Unprocessable
    ELSE IF ~skip_revocation_check /\ t < r.blocklist[tok.jti] THEN Unauthorized
    ELSE Proceed

\* verify_jwt_in_request of flask_jwt_extended, with the library's default
\* error responses (the application registers no loader but the blocklist
\* one): no token, expired, not fresh, revoked -> 401; wrong type -> 422.
verify_jwt_in_request(tok, fresh, refresh, verify_type, skip_revocation_check, r, t) ==
    IF tok.jti = NoJti THEN Unauthorized
    ELSE IF tok.exp <= t THEN Unauthorized
    ELSE IF verify_type /\ ((tok.type = "refresh") # refresh) THEN Unprocessable
    ELSE IF fresh /\ ~tok.fresh THEN Unauthorized
    ELSE IF ~skip_revocation_check /\ check_if_token_is_revoked(r, tok.jti, t)
         THEN Unauthorized
    ELSE Proceed

ClearBlock(us, u) ==
    [us EXCEPT ![u].is_blocked = FALSE,
               ![u].blocked_reason = NoReason,
               ![u].blocked_until = NoTime]

\* mutant: the comparison with the clock is reversed
GateAccountCheck_reversed(us, uuid, t) ==
    IF uuid \notin DOMAIN us THEN [status |-> Unauthorized, users |-> us]
    ELSE IF ~us[uuid].email_verified THEN [status |-> Forbidden, users |-> us]
    ELSE IF us[uuid].is_deleted THEN [status |-> Gone, users |-> us]
    ELSE IF us[uuid].is_blocked
         THEN IF us[uuid].blocked_until = NoTime
              THEN [status |-> InternalError, users |-> us]
              ELSE IF us[uuid].blocked_until < t
                   THEN [status |-> Locked, users |-> us]
                   ELSE [status |-> Proceed, users |-> ClearBlock(us, uuid)]
    ELSE [status |-> Proceed, users |-> us]

\* mutant: a locked account is unblocked while the request is refused
GateAccountCheck_unblocking(us, uuid, t) ==
    LET user == get_user_by_uuid(us, uuid) IN
    IF user = NoUser THEN [status |-> Unauthorized, users |-> us]
    ELSE IF ~us[user].email_verified THEN [status |-> Forbidden, users |-> us]
    ELSE IF us[user].is_deleted THEN [status |-> Gone, users |-> us]
    ELSE IF us[user].is_blocked
         THEN IF us[user].blocked_until = NoTime
              THEN [status |-> InternalError, users |-> us]
              ELSE IF us[user].blocked_until > t
                   THEN [status |-> Locked, users |-> ClearBlock(us, user)]
                   ELSE [status |-> Proceed, users |-> ClearBlock(us, user)]
    ELSE [status |-> Proceed, users |-> us]

\* authenticator.wrapper, the account-state part (utils.py 230-254)
GateAccountCheck(us, uuid, t) ==
    LET user == get_user_by_uuid(us, uuid) IN
    IF user = NoUser THEN [status |-> Unauthorized, users |-> us]
    ELSE IF ~us[user].email_verified THEN [status |-> Forbidden, users |-> us]
    ELSE IF us[user].is_deleted THEN [status |-> Gone, users |-> us]
    ELSE IF us[user].is_blocked
         THEN IF us[user].blocked_until = NoTime
              THEN [status |-> InternalError, users |-> us]
              ELSE IF us[user].blocked_until > t
                   THEN [status |-> Locked, users |-> us]
                   ELSE [status |-> Proceed, users |-> ClearBlock(us, user)]
    ELSE [status |-> Proceed, users |-> us]

\* mutant: the account state is examined before the token is verified
authenticator_account_first(tok, fresh, refresh, verify_type, skip_revocation_check, us, r, t) ==
    LET a == GateAccountCheck(us, tok.sub, t)
        v == verify_jwt_in_request(tok, fresh, refresh, verify_type,
                                   skip_revocation_check, r, t) IN
    IF tok.jti # NoJti /\ a.status # Proceed THEN a
    ELSE IF v # Proceed THEN [status |-> v, users |-> a.users]
    ELSE a

\* authenticator(optional=False, fresh, refresh, verify_type, skip_revocation_check)
authenticator(tok, fresh, refresh, verify_type, skip_revocation_check, us, r, t) ==
    LET v == verify_jwt_in_request(tok, fresh, refresh, verify_type,
                                   skip_revocation_check, r, t) IN
    IF v # Proceed THEN [status |-> v, users |-> us]
    ELSE GateAccountCheck(us, tok.sub, t)

\* mutant: is_deleted is tested before email_verified
LoginAccountCheck_deleted_first(us, user, t) ==
    IF us[user].is_deleted THEN [status |-> Gone, users |-> us]
    ELSE IF ~us[user].email_verified THEN [status |-> Forbidden, users |-> us]
    ELSE IF us[user].is_blocked
         THEN IF us[user].blocked_until = NoTime
              THEN [status |-> InternalError, users |-> us]
              ELSE IF us[user].blocked_until > t
                   THEN [status |-> Locked, users |-> us]
                   ELSE [status |-> Proceed, users |-> ClearBlock(us, user)]
    ELSE [status |-> Proceed, users |-> us]

\* mutant: email_verified is not examined
LoginAccountCheck_unverified_too(us, user, t) ==
    IF us[user].is_deleted THEN [status |-> Gone, users |-> us]
    ELSE IF us[user].is_blocked
         THEN IF us[user].blocked_until = NoTime
              THEN [status |-> InternalError, users |-> us]
              ELSE IF us[user].blocked_until > t
                   THEN [status |-> Locked, users |-> us]
                   ELSE [status |-> Proceed, users |-> ClearBlock(us, user)]
    ELSE [status |-> Proceed, users |-> us]

\* Auth.get, the account-state part (auth.py 36-54)
LoginAccountCheck(us, user, t) ==
    IF ~us[user].email_verified THEN [status |-> Forbidden, users |-> us]
    ELSE IF us[user].is_deleted THEN [status |-> Gone, users |-> us]
    ELSE IF us[user].is_blocked
         THEN IF us[user].blocked_until = NoTime
              THEN [status |-> InternalError, users |-> us]
              ELSE IF us[user].blocked_until > t
                   THEN [status |-> Locked, users |-> us]
                   ELSE [status |-> Proceed, users |-> ClearBlock(us, user)]
    ELSE [status |-> Proceed, users |-> us]

\* ---------------------------------------------------------------- requests
Response(op, status, tok, access, refresh) ==
    [op |-> op, status |-> status, tok |-> tok, access |-> access, refresh |-> refresh]

Presentable == tokens \cup {NoToken}

\* Auth.get: login
Login(email, password) ==
    LET user == get_user_by_email(users, email) IN
    IF user = NoUser \/ ~check_password_hash(users[user].password, password)
    THEN /\ resp' = Response("login", Unauthorized, NoJti, NoJti, NoJti)
         /\ UNCHANGED <<users, tokens, redis, now, nextJti, loggedOut>>
    ELSE LET chk == LoginAccountCheck(users, user, now) IN
         IF chk.status # Proceed
         THEN /\ resp' = Response("login", chk.status, NoJti, NoJti, NoJti)
              /\ users' = chk.users
              /\ UNCHANGED <<tokens, redis, now, nextJti, loggedOut>>
         ELSE /\ nextJti + 1 <= MaxJti
              /\ LET refresh_token == create_refresh_token(user, nextJti, now)
                     access_token == create_access_token(
                         user, TRUE, refresh_token.jti, nextJti + 1, now)
                 IN /\ tokens' = tokens \cup {refresh_token, access_token}
                    /\ resp' = Response("login", Ok, NoJti,
                                        access_token.jti, refresh_token.jti)
              /\ users' = chk.users
              /\ nextJti' = nextJti + 2
              /\ UNCHANGED <<redis, now, loggedOut>>

\* mutant: the presented refresh token is consumed
Refresh_consuming(tok) ==
    LET g == authenticator(tok, FALSE, TRUE, TRUE, FALSE, users, redis, now) IN
    IF g.status # Proceed
    THEN /\ resp' = Response("refresh", g.status, tok.jti, NoJti, NoJti)
         /\ users' = g.users
         /\ UNCHANGED <<tokens, redis, now, nextJti, loggedOut>>
    ELSE /\ nextJti <= MaxJti
         /\ LET access_token == create_access_token(
                    tok.sub, FALSE, tok.jti, nextJti, now)
            IN /\ tokens' = tokens \cup {access_token}
               /\ resp' = Response("refresh", Ok, tok.jti, access_token.jti, NoJti)
         /\ users' = g.users
         /\ nextJti' = nextJti + 1
         /\ redis' = RedisSetJti(redis, tok.jti, RefreshExp, now)
         /\ UNCHANGED <<now, loggedOut>>

\* Auth.patch: refresh, behind authenticator(refresh=True)
Refresh(tok) ==
    LET g == authenticator(tok, FALSE, TRUE, TRUE, FALSE, users, redis, now) IN
    IF g.status # Proceed
    THEN /\ resp' = Response("refresh", g.status, tok.jti, NoJti, NoJti)
         /\ users' = g.users
         /\ UNCHANGED <<tokens, redis, now, nextJti, loggedOut>>
    ELSE /\ nextJti <= MaxJti
         /\ LET access_token == create_access_token(
                    tok.sub, FALSE, tok.jti, nextJti, now)
            IN /\ tokens' = tokens \cup {access_token}
               /\ resp' = Response("refresh", Ok, tok.jti, access_token.jti, NoJti)
         /\ users' = g.users
         /\ nextJti' = nextJti + 1
         /\ UNCHANGED <<redis, now, loggedOut>>

\* mutant: only the presented token is revoked
Logout_own_only(tok) ==
    LET g == authenticator(tok, FALSE, FALSE, TRUE, FALSE, users, redis, now) IN
    IF g.status # Proceed
    THEN /\ resp' = Response("logout", g.status, tok.jti, NoJti, NoJti)
         /\ users' = g.users
         /\ UNCHANGED <<tokens, redis, now, nextJti, loggedOut>>
    ELSE /\ redis' = RedisSetJti(redis, tok.jti, AccessExp, now)
         /\ resp' = Response("logout", Ok, tok.jti, NoJti, NoJti)
         /\ users' = g.users
         /\ loggedOut' = loggedOut \cup {tok.jti}
         /\ UNCHANGED <<tokens, now, nextJti>>

\* mutant: every token of the account is revoked
Logout_all_sessions(tok) ==
    LET g == authenticator(tok, FALSE, FALSE, TRUE, FALSE, users, redis, now)
        hit == {t.jti : t \in {t \in tokens : t.sub = tok.sub}}
    IN
    IF g.status # Proceed
    THEN /\ resp' = Response("logout", g.status, tok.jti, NoJti, NoJti)
         /\ users' = g.users
         /\ UNCHANGED <<tokens, redis, now, nextJti, loggedOut>>
    ELSE /\ redis' = [redis EXCEPT !.blocklist =
                        [j \in DOMAIN @ |-> IF j \in hit THEN now + RefreshExp
                                            ELSE @[j]]]
         /\ resp' = Response("logout", Ok, tok.jti, NoJti, NoJti)
         /\ users' = g.users
         /\ loggedOut' = loggedOut \cup {tok.jti}
         /\ UNCHANGED <<tokens, now, nextJti>>

\* mutant: the access tokens minted from the same refresh token are revoked too
Logout_cascading(tok) ==
    LET g == authenticator(tok, FALSE, FALSE, TRUE, FALSE, users, redis, now)
        hit == {t.jti : t \in {t \in tokens : t.refresh_jti = tok.refresh_jti}}
    IN
    IF g.status # Proceed
    THEN /\ resp' = Response("logout", g.status, tok.jti, NoJti, NoJti)
         /\ users' = g.users
         /\ UNCHANGED <<tokens, redis, now, nextJti, loggedOut>>
    ELSE /\ redis' = [RedisSetJti(redis, tok.refresh_jti, RefreshExp, now)
                        EXCEPT !.blocklist =
                          [j \in DOMAIN @ |-> IF j \in hit THEN now + AccessExp
                                              ELSE @[j]]]
         /\ resp' = Response("logout", Ok, tok.jti, NoJti, NoJti)
         /\ users' = g.users
         /\ loggedOut' = loggedOut \cup {tok.jti}
         /\ UNCHANGED <<tokens, now, nextJti>>

\* mutant: the entries are written before the account is examined
Logout_before_gate(tok) ==
    LET v == verify_jwt_in_request(tok, FALSE, FALSE, TRUE, FALSE, redis, now)
        g == authenticator(tok, FALSE, FALSE, TRUE, FALSE, users, redis, now) IN
    IF v # Proceed
    THEN /\ resp' = Response("logout", v, tok.jti, NoJti, NoJti)
         /\ UNCHANGED <<users, tokens, redis, now, nextJti, loggedOut>>
    ELSE /\ redis' = RedisSetJti(
                        RedisSetJti(redis, tok.jti, AccessExp, now),
                        tok.refresh_jti, RefreshExp, now)
         /\ resp' = Response("logout", IF g.status = Proceed THEN Ok ELSE g.status,
                             tok.jti, NoJti, NoJti)
         /\ users' = g.users
         /\ loggedOut' = IF g.status = Proceed THEN loggedOut \cup {tok.jti}
                         ELSE loggedOut
         /\ UNCHANGED <<tokens, now, nextJti>>

\* Auth.delete: logout, behind authenticator(refresh=False)
Logout(tok) ==
    LET g == authenticator(tok, FALSE, FALSE, TRUE, FALSE, users, redis, now) IN
    IF g.status # Proceed
    THEN /\ resp' = Response("logout", g.status, tok.jti, NoJti, NoJti)
         /\ users' = g.users
         /\ UNCHANGED <<tokens, redis, now, nextJti, loggedOut>>
    ELSE /\ redis' = RedisSetJti(
                        RedisSetJti(redis, tok.jti, AccessExp, now),
                        tok.refresh_jti, RefreshExp, now)
         /\ resp' = Response("logout", Ok, tok.jti, NoJti, NoJti)
         /\ users' = g.users
         /\ loggedOut' = loggedOut \cup {tok.jti}
         /\ UNCHANGED <<tokens, now, nextJti>>

\* FineTuning.get, behind authenticator(): a read-only protected handler
FineTuningGet(tok) ==
    LET g == authenticator(tok, FALSE, FALSE, TRUE, FALSE, users, redis, now) IN
    /\ resp' = Response("fine_tuning",
                        IF g.status = Proceed THEN Ok ELSE g.status,
                        tok.jti, NoJti, NoJti)
    /\ users' = g.users
    /\ UNCHANGED <<tokens, redis, now, nextJti, loggedOut>>

\* the clock advances; redis drops the keys that expire
Tick ==
    /\ now < MaxTime
    /\ now' = now + 1
    /\ redis' = RedisExpire(redis, now + 1)
    /\ UNCHANGED <<users, tokens, nextJti, resp, loggedOut>>

\* administration outside the API: the only writer of a block (no handler sets
\* is_blocked); blocked_until is nullable
AdminBlock(u, until) ==
    /\ u \in DOMAIN users
    /\ ~users[u].is_blocked
    /\ users' = [users EXCEPT ![u].is_blocked = TRUE,
                              ![u].blocked_reason = "spam",
                              ![u].blocked_until = until]
    /\ resp' = Response("admin", Ok, NoJti, NoJti, NoJti)
    /\ UNCHANGED <<tokens, redis, now, nextJti, loggedOut>>

Init ==
    /\ \E row \in UserStates : users = (1 :> row)
    /\ tokens = {}
    /\ redis = EmptyRedis
    /\ now = 0
    /\ nextJti = 1
    /\ resp = Response("none", Ok, NoJti, NoJti, NoJti)
    /\ loggedOut = {}
    /\ reqs = <<>>
    /\ api_keys = SeedApiKeys
    /\ performed = NoOperation
    /\ mail_tokens = {}

\* every handler runs from start to end before the next request is served
Next ==
    \/ \E e \in Emails, p \in Passwords : Login(e, p) /\ UNCHANGED <<reqs, api_keys, performed, mail_tokens>>
    \/ \E tok \in Presentable : Refresh(tok) /\ UNCHANGED <<reqs, api_keys, performed, mail_tokens>>
    \/ \E tok \in Presentable : Logout(tok) /\ UNCHANGED <<reqs, api_keys, performed, mail_tokens>>
    \/ \E tok \in Presentable : FineTuningGet(tok) /\ UNCHANGED <<reqs, api_keys, performed, mail_tokens>>
    \/ Tick /\ UNCHANGED <<reqs, api_keys, performed, mail_tokens>>
    \/ \E u \in DOMAIN users, until \in {NoTime, BlockEnd} :
           AdminBlock(u, until) /\ UNCHANGED <<reqs, api_keys, performed, mail_tokens>>

Spec == Init /\ [][Next]_vars

\* ------------------------------------------------- interleaved requests
\* Two requests on the same account, each with its own SQLAlchemy session:
\* the row is read once (get_user_by_uuid / get_user_by_email), the checks
\* run on that copy against the clock, and UserDAO.commit() writes the
\* changed block columns back in one transaction.
Requests == {1, 2}
TheUser == 1

IdleRequest ==
    [pc |-> "idle", kind |-> "none", row |-> SeedUser, status |-> Proceed,
     checkedAt |-> NoTime, wrote |-> FALSE]

\* the request is dispatched and reads the user's row
ReqLoad(r, kind) ==
    /\ reqs[r].pc = "idle"
    /\ reqs' = [reqs EXCEPT ![r] = [pc |-> "loaded", kind |-> kind,
                                    row |-> users[TheUser], status |-> Proceed,
                                    checkedAt |-> NoTime, wrote |-> FALSE]]
    /\ UNCHANGED <<users, tokens, redis, now, nextJti, resp, loggedOut, api_keys, performed, mail_tokens>>

\* the account-state checks, on the request's copy of the row
ReqCheck(r) ==
    /\ reqs[r].pc = "loaded"
    /\ LET local == (TheUser :> reqs[r].row)
           chk == IF reqs[r].kind = "login"
                  THEN LoginAccountCheck(local, TheUser, now)
                  ELSE GateAccountCheck(local, TheUser, now)
       IN reqs' = [reqs EXCEPT ![r] =
                     [pc |-> IF chk.status # Proceed THEN "done"
                             ELSE IF chk.users # local THEN "commit"
                             ELSE "done",
                      kind |-> reqs[r].kind,
                      row |-> chk.users[TheUser],
                      status |-> chk.status,
                      checkedAt |-> now, wrote |-> FALSE]]
    /\ UNCHANGED <<users, tokens, redis, now, nextJti, resp, loggedOut, api_keys, performed, mail_tokens>>

\* UserDAO.commit(): the cleared block columns reach the table
ReqCommit(r) ==
    /\ reqs[r].pc = "commit"
    /\ users' = [users EXCEPT
                   ![TheUser].is_blocked = reqs[r].row.is_blocked,
                   ![TheUser].blocked_reason = reqs[r].row.blocked_reason,
                   ![TheUser].blocked_until = reqs[r].row.blocked_until]
    /\ reqs' = [reqs EXCEPT ![r].pc = "done", ![r].wrote = TRUE]
    /\ UNCHANGED <<tokens, redis, now, nextJti, resp, loggedOut, api_keys, performed, mail_tokens>>

ConcTick ==
    /\ now < MaxTime
    /\ now' = now + 1
    /\ UNCHANGED <<users, tokens, redis, nextJti, resp, loggedOut, reqs, api_keys, performed, mail_tokens>>

ConcInit ==
    /\ users = (TheUser :> UserRow(SeedEmail, generate_password_hash(SeedPassword),
                                   TRUE, FALSE, TRUE, "spam", BlockEnd))
    /\ tokens = {}
    /\ redis = EmptyRedis
    /\ now = 0
    /\ nextJti = 1
    /\ resp = Response("none", Ok, NoJti, NoJti, NoJti)
    /\ loggedOut = {}
    /\ reqs = [r \in Requests |-> IdleRequest]
    /\ api_keys = SeedApiKeys
    /\ performed = NoOperation
    /\ mail_tokens = {}

ConcNext ==
    \/ \E r \in Requests, kind \in {"gate", "login"} : ReqLoad(r, kind)
    \/ \E r \in Requests : ReqCheck(r)
    \/ \E r \in Requests : ReqCommit(r)
    \/ ConcTick

SpecConc == ConcInit /\ [][ConcNext]_vars

\* ------------------------------------------------------------ math captcha
\* Query arguments and stored values are texts: sequences of one-character
\* strings.  str and int convert between them and the integers.
Digits == <<"0", "1", "2", "3", "4", "5", "6", "7", "8", "9">>

DigitSet == {Digits[i] : i \in 1..10}

DigitValue(c) == (CHOOSE i \in 1..10 : Digits[i] = c) - 1

RECURSIVE str(_)
str(n) == IF n < 10 THEN <<Digits[n + 1]>>
          ELSE str(n \div 10) \o <<Digits[(n % 10) + 1]>>

RECURSIVE int(_)
int(s) == IF Len(s) = 1 THEN DigitValue(s[1])
          ELSE 10 * int(SubSeq(s, 1, Len(s) - 1)) + DigitValue(s[Len(s)])

\* r'^(?:[1-9][0-9]{0,2}|1000)$'
math_captcha_answer_regexp(s) ==
    \/ /\ Len(s) \in 1..3
       /\ s[1] \in DigitSet \ {"0"}
       /\ \A i \in 2..Len(s) : s[i] \in DigitSet
    \/ s = <<"1", "0", "0", "0">>

\* r'^.{10,255}$'
removal_reason_regexp(s) == Len(s) \in 10..255

\* uuid4_regexp, on the uuids a request can carry
uuid4_regexp(s) == s \in {SeedKeyUuid, OtherUuid}

\* the text generate_math_problem prints: f"{num1} {operation} {num2} = "
ProblemText(num1, operation, num2) ==
    str(num1) \o <<" ", operation, " ">> \o str(num2) \o <<" ", "=", " ">>

\* mutant: a division is never skipped, the quotient is truncated
Calculate_truncating(num1, operation, num2) ==
    CASE operation = "+" -> [skip |-> FALSE, result |-> num1 + num2]
      [] operation = "-" -> [skip |-> FALSE, result |-> num1 - num2]
      [] operation = "*" -> [skip |-> FALSE, result |-> num1 * num2]
      [] operation = "/" -> [skip |-> FALSE, result |-> num1 \div num2]

\* the body of the loop up to the range test: the result, or `continue` for a
\* division that leaves a remainder
Calculate(num1, operation, num2) ==
    CASE operation = "+" -> [skip |-> FALSE, result |-> num1 + num2]
      [] operation = "-" -> [skip |-> FALSE, result |-> num1 - num2]
      [] operation = "*" -> [skip |-> FALSE, result |-> num1 * num2]
      [] operation = "/" -> IF num2 # 0 /\ num1 % num2 = 0
                            THEN [skip |-> FALSE, result |-> num1 \div num2]
                            ELSE [skip |-> TRUE, result |-> 0]

\* what the loop can return with operands drawn from 1..n and the result kept
\* within 1..n
MathProblems(n) ==
    { [problem |-> ProblemText(t[1], t[2], t[3]),
       result |-> Calculate(t[1], t[2], t[3]).result] :
        t \in { t \in (1..n) \X {"+", "-", "*", "/"} \X (1..n) :
                  /\ ~Calculate(t[1], t[2], t[3]).skip
                  /\ Calculate(t[1], t[2], t[3]).result >= 1
                  /\ Calculate(t[1], t[2], t[3]).result <= n } }

\* what generate_math_problem can return, the code's 1000 scaled to MaxNum
generate_math_problem == MathProblems(MaxNum)

NoProblem == <<>>

CaptchaResponse(op, status, tok, answer, problem) ==
    [op |-> op, status |-> status, tok |-> tok, answer |-> answer,
     problem |-> problem]

\* mutant: the problem is returned but its answer is not stored
set_captcha_unstored(op, tok, answer) ==
    \E p \in generate_math_problem :
        /\ redis' = redis
        /\ resp' = CaptchaResponse(op, Accepted, tok.jti, answer, p.problem)
        /\ UNCHANGED <<users, api_keys, performed>>

\* a new challenge replaces the stored answer; the response carries the problem
set_captcha(op, tok, answer) ==
    \E p \in generate_math_problem :
        /\ redis' = RedisSetCaptcha(redis, tok.sub, str(p.result), CaptchaDuration, now)
        /\ resp' = CaptchaResponse(op, Accepted, tok.jti, answer, p.problem)
        /\ UNCHANGED <<users, api_keys, performed>>

\* mutant: the challenge is consumed before removal_reason is looked at
AccountDelete_consume_first(tok, captcha_answer, removal_reason) ==
    LET v == verify_jwt_in_request(tok, TRUE, FALSE, TRUE, FALSE, redis, now)
        result == RedisGetCaptcha(redis, tok.sub, now)
        reply(status) == CaptchaResponse("account_delete", status, tok.jti,
                                         captcha_answer, NoProblem)
    IN
    /\ UNCHANGED <<tokens, now, nextJti, loggedOut>>
    /\ IF v # Proceed
       THEN /\ resp' = reply(v)
            /\ UNCHANGED <<users, redis, api_keys, performed>>
       ELSE IF \/ captcha_answer # NoArg /\ ~math_captcha_answer_regexp(captcha_answer)
               \/ removal_reason # NoArg /\ ~removal_reason_regexp(removal_reason)
       THEN /\ resp' = reply(BadRequest)
            /\ UNCHANGED <<users, redis, api_keys, performed>>
       ELSE IF captcha_answer = NoArg
       THEN set_captcha("account_delete", tok, captcha_answer)
       ELSE IF ~result.found \/ int(captcha_answer) # int(result.val)
       THEN set_captcha("account_delete", tok, captcha_answer)
       ELSE IF removal_reason = NoArg
       THEN /\ resp' = reply(BadRequest)
            /\ redis' = RedisDeleteCaptcha(redis, tok.sub)
            /\ UNCHANGED <<users, api_keys, performed>>
       ELSE /\ redis' = RedisDeleteCaptcha(redis, tok.sub)
            /\ users' = [users EXCEPT ![get_user_by_uuid(users, tok.sub)] =
                           [@ EXCEPT !.is_deleted = TRUE,
                                     !.removal_reason = removal_reason]]
            /\ resp' = reply(Ok)
            /\ performed' = [op |-> "account_delete", sub |-> tok.sub,
                             answer |-> captcha_answer]
            /\ UNCHANGED api_keys

\* mutant: a successful deletion revokes the token that asked for it
AccountDelete_revoking(tok, captcha_answer, removal_reason) ==
    LET v == verify_jwt_in_request(tok, TRUE, FALSE, TRUE, FALSE, redis, now)
        result == RedisGetCaptcha(redis, tok.sub, now)
        reply(status) == CaptchaResponse("account_delete", status, tok.jti,
                                         captcha_answer, NoProblem)
    IN
    /\ UNCHANGED <<tokens, now, nextJti, loggedOut>>
    /\ IF v # Proceed
       THEN /\ resp' = reply(v)
            /\ UNCHANGED <<users, redis, api_keys, performed>>
       ELSE IF \/ captcha_answer # NoArg /\ ~math_captcha_answer_regexp(captcha_answer)
               \/ removal_reason # NoArg /\ ~removal_reason_regexp(removal_reason)
       THEN /\ resp' = reply(BadRequest)
            /\ UNCHANGED <<users, redis, api_keys, performed>>
       ELSE IF captcha_answer = NoArg
       THEN set_captcha("account_delete", tok, captcha_answer)
       ELSE IF ~result.found \/ int(captcha_answer) # int(result.val)
       THEN set_captcha("account_delete", tok, captcha_answer)
       ELSE IF removal_reason = NoArg
       THEN /\ resp' = reply(BadRequest)
            /\ UNCHANGED <<users, redis, api_keys, performed>>
       ELSE /\ redis' = RedisSetJti(RedisDeleteCaptcha(redis, tok.sub),
                                    tok.jti, AccessExp, now)
            /\ users' = [users EXCEPT ![get_user_by_uuid(users, tok.sub)] =
                           [@ EXCEPT !.is_deleted = TRUE,
                                     !.removal_reason = removal_reason]]
            /\ resp' = reply(Ok)
            /\ performed' = [op |-> "account_delete", sub |-> tok.sub,
                             answer |-> captcha_answer]
            /\ UNCHANGED api_keys

\* Account.delete: jwt_required(fresh=True), arg_parser(optional_args), handler
AccountDelete(tok, captcha_answer, removal_reason) ==
    LET v == verify_jwt_in_request(tok, TRUE, FALSE, TRUE, FALSE, redis, now)
        result == RedisGetCaptcha(redis, tok.sub, now)
        reply(status) == CaptchaResponse("account_delete", status, tok.jti,
                                         captcha_answer, NoProblem)
    IN
    /\ UNCHANGED <<tokens, now, nextJti, loggedOut>>
    /\ IF v # Proceed
       THEN /\ resp' = reply(v)
            /\ UNCHANGED <<users, redis, api_keys, performed>>
       ELSE IF \/ captcha_answer # NoArg /\ ~math_captcha_answer_regexp(captcha_answer)
               \/ removal_reason # NoArg /\ ~removal_reason_regexp(removal_reason)
       THEN /\ resp' = reply(BadRequest)
            /\ UNCHANGED <<users, redis, api_keys, performed>>
       ELSE IF captcha_answer = NoArg
       THEN set_captcha("account_delete", tok, captcha_answer)
       ELSE IF ~result.found \/ int(captcha_answer) # int(result.val)
       THEN set_captcha("account_delete", tok, captcha_answer)
       ELSE IF removal_reason = NoArg
       THEN /\ resp' = reply(BadRequest)
            /\ UNCHANGED <<users, redis, api_keys, performed>>
       ELSE /\ redis' = RedisDeleteCaptcha(redis, tok.sub)
            /\ users' = [users EXCEPT ![get_user_by_uuid(users, tok.sub)] =
                           [@ EXCEPT !.is_deleted = TRUE,
                                     !.removal_reason = removal_reason]]
            /\ resp' = reply(Ok)
            /\ performed' = [op |-> "account_delete", sub |-> tok.sub,
                             answer |-> captcha_answer]
            /\ UNCHANGED api_keys

\* mutant: the uuid is validated and the key looked up before the challenge
\* is consumed
ApiKeyDelete_validate_first(tok, captcha_answer, uuid) ==
    LET v == verify_jwt_in_request(tok, TRUE, FALSE, TRUE, FALSE, redis, now)
        result == RedisGetCaptcha(redis, tok.sub, now)
        api_key == get_api_key_by_uuid(api_keys, uuid)
        reply(status) == CaptchaResponse("api_key_delete", status, tok.jti,
                                         captcha_answer, NoProblem)
    IN
    /\ UNCHANGED <<tokens, now, nextJti, loggedOut>>
    /\ IF v # Proceed
       THEN /\ resp' = reply(v)
            /\ UNCHANGED <<users, redis, api_keys, performed>>
       ELSE IF captcha_answer \in {NoArg, <<>>}
       THEN set_captcha("api_key_delete", tok, captcha_answer)
       ELSE IF ~math_captcha_answer_regexp(captcha_answer)
       THEN /\ resp' = reply(BadRequest)
            /\ UNCHANGED <<users, redis, api_keys, performed>>
       ELSE IF ~(result.found /\ int(captcha_answer) = int(result.val))
       THEN set_captcha("api_key_delete", tok, captcha_answer)
       ELSE IF uuid = "None" \/ ~uuid4_regexp(uuid)
       THEN /\ resp' = reply(BadRequest)
            /\ UNCHANGED <<users, redis, api_keys, performed>>
       ELSE IF api_key = "None"
       THEN /\ resp' = reply(NotFound)
            /\ UNCHANGED <<users, redis, api_keys, performed>>
       ELSE /\ redis' = RedisDeleteCaptcha(redis, tok.sub)
            /\ api_keys' = [api_keys EXCEPT ![api_key].is_deleted = TRUE]
            /\ resp' = reply(Ok)
            /\ performed' = [op |-> "api_key_delete", sub |-> tok.sub,
                             answer |-> captcha_answer]
            /\ UNCHANGED users

\* ApiKey.delete: jwt_required(fresh=True), math_captcha(),
\* arg_parser(required_args = uuid), handler
ApiKeyDelete(tok, captcha_answer, uuid) ==
    LET v == verify_jwt_in_request(tok, TRUE, FALSE, TRUE, FALSE, redis, now)
        result == RedisGetCaptcha(redis, tok.sub, now)
        api_key == get_api_key_by_uuid(api_keys, uuid)
        reply(status) == CaptchaResponse("api_key_delete", status, tok.jti,
                                         captcha_answer, NoProblem)
    IN
    /\ UNCHANGED <<tokens, now, nextJti, loggedOut>>
    /\ IF v # Proceed
       THEN /\ resp' = reply(v)
            /\ UNCHANGED <<users, redis, api_keys, performed>>
       ELSE IF captcha_answer \in {NoArg, <<>>}
       THEN set_captcha("api_key_delete", tok, captcha_answer)
       ELSE IF ~math_captcha_answer_regexp(captcha_answer)
       THEN /\ resp' = reply(BadRequest)
            /\ UNCHANGED <<users, redis, api_keys, performed>>
       ELSE IF ~(result.found /\ int(captcha_answer) = int(result.val))
       THEN set_captcha("api_key_delete", tok, captcha_answer)
       ELSE /\ redis' = RedisDeleteCaptcha(redis, tok.sub)
            /\ UNCHANGED users
            /\ IF uuid = "None" \/ ~uuid4_regexp(uuid)
               THEN /\ resp' = reply(BadRequest)
                    /\ UNCHANGED <<api_keys, performed>>
               ELSE IF api_key = "None"
               THEN /\ resp' = reply(NotFound)
                    /\ UNCHANGED <<api_keys, performed>>
               ELSE /\ api_keys' = [api_keys EXCEPT ![api_key].is_deleted = TRUE]
                    /\ resp' = reply(Ok)
                    /\ performed' = [op |-> "api_key_delete", sub |-> tok.sub,
                                     answer |-> captcha_answer]

\* the query arguments a client sends
CaptchaAnswers ==
    {NoArg, <<>>, <<"0", "1">>} \cup {str(n) : n \in 1..MaxNum}

RemovalReasons ==
    {NoArg, <<"s", "p", "a", "m">>,
     <<"n", "o", " ", "l", "o", "n", "g", "e", "r", " ", "n", "e", "e", "d", "e", "d">>}

UuidArgs == {"None", "not-a-uuid", SeedKeyUuid, OtherUuid}

\* the seeded account has logged in at time 0: a refresh token and a fresh
\* access token
CaptchaInit ==
    /\ users = (1 :> SeedUser)
    /\ tokens = { create_refresh_token(1, 1, 0),
                  create_access_token(1, TRUE, 1, 2, 0) }
    /\ redis = EmptyRedis
    /\ now = 0
    /\ nextJti = 3
    /\ resp = CaptchaResponse("none", Ok, NoJti, NoArg, NoProblem)
    /\ loggedOut = {}
    /\ reqs = <<>>
    /\ api_keys = SeedApiKeys
    /\ performed = NoOperation
    /\ mail_tokens = {}

CaptchaNext ==
    \/ \E tok \in Presentable, a \in CaptchaAnswers, rr \in RemovalReasons :
           AccountDelete(tok, a, rr) /\ UNCHANGED <<reqs, mail_tokens>>
    \/ \E tok \in Presentable, a \in CaptchaAnswers, u \in UuidArgs :
           ApiKeyDelete(tok, a, u) /\ UNCHANGED <<reqs, mail_tokens>>
    \/ Tick /\ UNCHANGED <<reqs, api_keys, performed, mail_tokens>>

SpecCaptcha == CaptchaInit /\ [][CaptchaNext]_vars

\* ------------------------------------------------- interleaved challenges
\* Two DELETE requests of the seeded account in flight, with the fresh access
\* token of its login.  Each redis command is atomic; a request's commands
\* are separate steps: redis_client.get, then redis_client.delete or
\* redis_client.set, then the handler's work on the database.
FreshAccessToken == create_access_token(1, TRUE, 1, 2, 0)

IdleCaptchaRequest ==
    [pc |-> "idle", op |-> "none", captcha_answer |-> NoArg,
     removal_reason |-> NoArg, uuid |-> "None",
     result |-> [found |-> FALSE, val |-> <<>>], status |-> Proceed]

\* the request passes jwt_required(fresh=True) and the argument checks that
\* precede the lookup, then reads the stored answer
CaptchaLookup(r, op, captcha_answer, removal_reason, uuid) ==
    LET tok == FreshAccessToken
        v == verify_jwt_in_request(tok, TRUE, FALSE, TRUE, FALSE, redis, now)
        reply(status) == CaptchaResponse(op, status, tok.jti, captcha_answer, NoProblem)
        ends(status) == [reqs EXCEPT ![r] =
                           [IdleCaptchaRequest EXCEPT !.pc = "done", !.op = op,
                                !.captcha_answer = captcha_answer,
                                !.removal_reason = removal_reason,
                                !.uuid = uuid, !.status = status]]
        malformed == IF op = "account_delete"
                     THEN \/ captcha_answer # NoArg /\ ~math_captcha_answer_regexp(captcha_answer)
                          \/ removal_reason # NoArg /\ ~removal_reason_regexp(removal_reason)
                     ELSE /\ captcha_answer \notin {NoArg, <<>>}
                          /\ ~math_captcha_answer_regexp(captcha_answer)
        absent == IF op = "account_delete" THEN captcha_answer = NoArg
                  ELSE captcha_answer \in {NoArg, <<>>}
    IN
    /\ reqs[r].pc = "idle"
    /\ UNCHANGED <<tokens, now, nextJti, loggedOut, mail_tokens>>
    /\ IF v # Proceed
       THEN /\ reqs' = ends(v)
            /\ resp' = reply(v)
            /\ UNCHANGED <<users, redis, api_keys, performed>>
       ELSE IF malformed
       THEN /\ reqs' = ends(BadRequest)
            /\ resp' = reply(BadRequest)
            /\ UNCHANGED <<users, redis, api_keys, performed>>
       ELSE IF absent
       THEN /\ reqs' = ends(Accepted)
            /\ set_captcha(op, tok, captcha_answer)
       ELSE /\ reqs' = [reqs EXCEPT ![r] =
                          [pc |-> "got", op |-> op,
                           captcha_answer |-> captcha_answer,
                           removal_reason |-> removal_reason, uuid |-> uuid,
                           result |-> RedisGetCaptcha(redis, tok.sub, now),
                           status |-> Proceed]]
            /\ UNCHANGED <<users, redis, api_keys, performed, resp>>

\* the answer is compared with what the lookup returned; a match deletes the
\* key and lets the operation through, a mismatch stores a new challenge
CaptchaSettle(r) ==
    LET q == reqs[r]
        tok == FreshAccessToken
        matches == q.result.found /\ int(q.captcha_answer) = int(q.result.val)
    IN
    /\ q.pc = "got"
    /\ UNCHANGED <<tokens, now, nextJti, loggedOut, mail_tokens>>
    /\ IF ~matches
       THEN /\ reqs' = [reqs EXCEPT ![r].pc = "done", ![r].status = Accepted]
            /\ set_captcha(q.op, tok, q.captcha_answer)
       ELSE IF q.op = "account_delete" /\ q.removal_reason = NoArg
       THEN /\ reqs' = [reqs EXCEPT ![r].pc = "done", ![r].status = BadRequest]
            /\ resp' = CaptchaResponse(q.op, BadRequest, tok.jti,
                                       q.captcha_answer, NoProblem)
            /\ UNCHANGED <<users, redis, api_keys, performed>>
       ELSE /\ reqs' = [reqs EXCEPT ![r].pc = "authorized"]
            /\ redis' = RedisDeleteCaptcha(redis, tok.sub)
            /\ UNCHANGED <<users, api_keys, performed, resp>>

\* the guarded operation: the account or the API key is marked deleted
CaptchaHandler(r) ==
    LET q == reqs[r]
        tok == FreshAccessToken
        api_key == get_api_key_by_uuid(api_keys, q.uuid)
        status == IF q.op = "account_delete" THEN Ok
                  ELSE IF q.uuid = "None" \/ ~uuid4_regexp(q.uuid) THEN BadRequest
                  ELSE IF api_key = "None" THEN NotFound
                  ELSE Ok
    IN
    /\ q.pc = "authorized"
    /\ UNCHANGED <<tokens, redis, now, nextJti, loggedOut, mail_tokens>>
    /\ reqs' = [reqs EXCEPT ![r].pc = "done", ![r].status = status]
    /\ resp' = CaptchaResponse(q.op, status, tok.jti, q.captcha_answer, NoProblem)
    /\ IF status # Ok
       THEN UNCHANGED <<users, api_keys, performed>>
       ELSE /\ performed' = [op |-> q.op, sub |-> tok.sub, answer |-> q.captcha_answer]
            /\ IF q.op = "account_delete"
               THEN /\ users' = [users EXCEPT ![get_user_by_uuid(users, tok.sub)] =
                                    [@ EXCEPT !.is_deleted = TRUE,
                                              !.removal_reason = q.removal_reason]]
                    /\ UNCHANGED api_keys
               ELSE /\ api_keys' = [api_keys EXCEPT ![api_key].is_deleted = TRUE]
                    /\ UNCHANGED users

CaptchaConcTick ==
    /\ Tick
    /\ UNCHANGED <<reqs, api_keys, performed, mail_tokens>>

\* the account has logged in and has been sent one challenge, at time 0
CaptchaConcInit ==
    /\ users = (1 :> SeedUser)
    /\ tokens = {create_refresh_token(1, 1, 0), FreshAccessToken}
    /\ \E p \in generate_math_problem :
           /\ redis = RedisSetCaptcha(EmptyRedis, 1, str(p.result), CaptchaDuration, 0)
           /\ resp = CaptchaResponse("api_key_delete", Accepted, FreshAccessToken.jti,
                                     NoArg, p.problem)
    /\ now = 0
    /\ nextJti = 3
    /\ loggedOut = {}
    /\ reqs = [r \in Requests |-> IdleCaptchaRequest]
    /\ api_keys = SeedApiKeys
    /\ performed = NoOperation
    /\ mail_tokens = {}

CaptchaConcNext ==
    \/ \E r \in Requests, a \in CaptchaAnswers, rr \in RemovalReasons :
           CaptchaLookup(r, "account_delete", a, rr, "None")
    \/ \E r \in Requests, a \in CaptchaAnswers, u \in UuidArgs :
           CaptchaLookup(r, "api_key_delete", a, NoArg, u)
    \/ \E r \in Requests : CaptchaSettle(r)
    \/ \E r \in Requests : CaptchaHandler(r)
    \/ CaptchaConcTick

SpecCaptchaConc == CaptchaConcInit /\ [][CaptchaConcNext]_vars

\* ------------------------------------------- sessions and account deletion
\* The seeded account logs in, refreshes and asks for its deletion with any
\* of the tokens it holds.
\* the arguments of a client that sends nothing malformed and always states
\* its reason
WellFormedAnswers ==
    {a \in CaptchaAnswers : a = NoArg \/ math_captcha_answer_regexp(a)}

StatedReasons ==
    {rr \in RemovalReasons : removal_reason_regexp(rr)}

FreshInit ==
    /\ users = (1 :> SeedUser)
    /\ tokens = {}
    /\ redis = EmptyRedis
    /\ now = 0
    /\ nextJti = 1
    /\ resp = Response("none", Ok, NoJti, NoJti, NoJti)
    /\ loggedOut = {}
    /\ reqs = <<>>
    /\ api_keys = SeedApiKeys
    /\ performed = NoOperation
    /\ mail_tokens = {}

FreshNext ==
    \/ \E e \in Emails, p \in Passwords :
           Login(e, p) /\ UNCHANGED <<reqs, api_keys, performed, mail_tokens>>
    \/ \E tok \in Presentable :
           Refresh(tok) /\ UNCHANGED <<reqs, api_keys, performed, mail_tokens>>
    \/ \E tok \in Presentable, a \in WellFormedAnswers, rr \in StatedReasons :
           AccountDelete(tok, a, rr) /\ UNCHANGED <<reqs, mail_tokens>>
    \/ Tick /\ UNCHANGED <<reqs, api_keys, performed, mail_tokens>>

SpecFresh == FreshInit /\ [][FreshNext]_vars

\* ------------------------------------------------------------ registration
\* Auth.post, two requests in flight.  A request looks the email up
\* (get_user_by_email), then inserts (User.insert: add and commit); the users
\* table has a unique index on email, so an insert that meets the email raises
\* IntegrityError, which dao_error_handler rolls back and the application
\* answers with 500.  The names a request carries are stored and never read.
RegEmails == Emails \cup {"c@d.org"}

NewUuid(us) == Cardinality(DOMAIN us) + 1

\* create_user leaves email_verified at None, so the column default (False)
\* is stored; is_deleted and is_blocked take their defaults as well
create_user(email, password) ==
    UserRow(email, password, FALSE, FALSE, FALSE, NoReason, NoTime)

\* mutant: the table has no unique index on email
insert_no_unique_index(us, row) ==
    [ok |-> TRUE, users |-> us @@ (NewUuid(us) :> row)]

insert(us, row) ==
    IF \E u \in DOMAIN us : us[u].email = row.email
    THEN [ok |-> FALSE, users |-> us]
    ELSE [ok |-> TRUE, users |-> us @@ (NewUuid(us) :> row)]

IdleRegistration ==
    [pc |-> "idle", email |-> "None", password |-> "None", status |-> Proceed]

\* the request is dispatched: the email is looked up
RegLookup(r, email, password) ==
    /\ reqs[r].pc \in {"idle", "done"}
    /\ IF get_user_by_email(users, email) # NoUser
       THEN /\ reqs' = [reqs EXCEPT ![r] = [pc |-> "done", email |-> email,
                                            password |-> password,
                                            status |-> Conflict]]
            /\ resp' = Response("register", Conflict, NoJti, NoJti, NoJti)
       ELSE /\ reqs' = [reqs EXCEPT ![r] = [pc |-> "insert", email |-> email,
                                            password |-> password,
                                            status |-> Proceed]]
            /\ UNCHANGED resp
    /\ UNCHANGED <<users, tokens, redis, now, nextJti, loggedOut, api_keys,
                   performed, mail_tokens>>

\* UserDAO.create_user with the hashed password, then the response
RegInsert(r) ==
    /\ reqs[r].pc = "insert"
    /\ LET ins == insert(users, create_user(reqs[r].email,
                             generate_password_hash(reqs[r].password)))
           status == IF ins.ok THEN Created ELSE InternalError
       IN /\ users' = ins.users
          /\ reqs' = [reqs EXCEPT ![r].pc = "done", ![r].status = status]
          /\ resp' = Response("register", status, NoJti, NoJti, NoJti)
    /\ UNCHANGED <<tokens, redis, now, nextJti, loggedOut, api_keys, performed, mail_tokens>>

RegInit ==
    /\ users = (1 :> SeedUser)
    /\ tokens = {}
    /\ redis = EmptyRedis
    /\ now = 0
    /\ nextJti = 1
    /\ resp = Response("none", Ok, NoJti, NoJti, NoJti)
    /\ loggedOut = {}
    /\ reqs = [r \in Requests |-> IdleRegistration]
    /\ api_keys = SeedApiKeys
    /\ performed = NoOperation
    /\ mail_tokens = {}

RegNext ==
    \/ \E r \in Requests, e \in RegEmails, p \in Passwords : RegLookup(r, e, p)
    \/ \E r \in Requests : RegInsert(r)
    \/ \E e \in RegEmails, p \in Passwords :
           Login(e, p) /\ UNCHANGED <<reqs, api_keys, performed, mail_tokens>>

SpecReg == RegInit /\ [][RegNext]_vars

\* ------------------------------------------------------ email confirmation
\* ConfirmEmail.get.  With the email argument the handler looks the user and
\* the marker up (redis get), then writes the marker (redis set), signs the
\* token and sends it; two such requests are in flight and interleave between
\* the get and the set.  With the token argument it verifies the email.
UnverifiedUser == create_user("a@b.com", generate_password_hash("Abcdef1@"))

\* URLSafeTimedSerializer.dumps: the signed email and the signing time; serial
\* tells apart two tokens signed for one email at one instant
MailToken(email, iat, serial) == [email |-> email, iat |-> iat, serial |-> serial]

ForgedMailToken == MailToken("a@b.com", NoTime, 0)

\* confirm_token: loads(..., max_age=MAIL_TOKEN_EXP) accepts a signed token
\* whose age is at most max_age
confirm_token(token, t) ==
    IF token \in mail_tokens /\ t - token.iat <= MailTokenExp
    THEN token.email ELSE "None"

IdleMailRequest ==
    [pc |-> "idle", email |-> "None", status |-> Proceed]

\* the user is looked up, then generate_confirmation_token reads the marker
MailLookup(r, email) ==
    /\ reqs[r].pc \in {"idle", "done"}
    /\ LET user == get_user_by_email(users, email)
           status == IF user = NoUser THEN BadRequest
                     ELSE IF users[user].email_verified THEN BadRequest
                     ELSE IF RedisGetMail(redis, email, now) # "None"
                     THEN TooManyRequests
                     ELSE Proceed
       IN /\ reqs' = [reqs EXCEPT ![r] =
                        [pc |-> IF status = Proceed THEN "set" ELSE "done",
                         email |-> email, status |-> status]]
          /\ resp' = IF status = Proceed THEN resp
                     ELSE Response("confirm_email", status, NoJti, NoJti, NoJti)
    /\ UNCHANGED <<users, tokens, redis, now, nextJti, loggedOut, api_keys,
                   performed, mail_tokens>>

\* the marker is written, the token signed and the email sent (or not)
MailSet(r, sent) ==
    /\ reqs[r].pc = "set"
    /\ redis' = RedisSetMail(redis, reqs[r].email, MailTokenExp, now)
    /\ mail_tokens' = mail_tokens \cup
          {MailToken(reqs[r].email, now, Cardinality(mail_tokens) + 1)}
    /\ LET status == IF sent THEN Ok ELSE ServiceUnavailable
       IN /\ reqs' = [reqs EXCEPT ![r].pc = "done", ![r].status = status]
          /\ resp' = Response("confirm_email", status, NoJti, NoJti, NoJti)
    /\ UNCHANGED <<users, tokens, now, nextJti, loggedOut, api_keys, performed>>

\* the link of the email is followed
MailConfirm(token) ==
    LET email == confirm_token(token, now)
        user == get_user_by_email(users, email)
    IN
    /\ IF email = "None"
       THEN /\ resp' = Response("confirm_token", BadRequest, NoJti, NoJti, NoJti)
            /\ UNCHANGED users
       ELSE IF user = NoUser \/ users[user].email_verified
       THEN /\ resp' = Response("confirm_token", BadRequest, NoJti, NoJti, NoJti)
            /\ UNCHANGED users
       ELSE /\ users' = [users EXCEPT ![user].email_verified = TRUE]
            /\ resp' = Response("confirm_token", Ok, NoJti, NoJti, NoJti)
    /\ UNCHANGED <<tokens, redis, now, nextJti, loggedOut, reqs, api_keys,
                   performed, mail_tokens>>

MailTick ==
    /\ Tick
    /\ UNCHANGED <<reqs, api_keys, performed, mail_tokens>>

\* the seeded account and one account that registered and is not yet verified
MailInit ==
    /\ users = (1 :> SeedUser) @@ (2 :> UnverifiedUser)
    /\ tokens = {}
    /\ redis = EmptyRedis
    /\ now = 0
    /\ nextJti = 1
    /\ resp = Response("none", Ok, NoJti, NoJti, NoJti)
    /\ loggedOut = {}
    /\ reqs = [r \in Requests |-> IdleMailRequest]
    /\ api_keys = SeedApiKeys
    /\ performed = NoOperation
    /\ mail_tokens = {}

MailNext ==
    \/ \E r \in Requests, e \in MailEmails : MailLookup(r, e)
    \/ \E r \in Requests, sent \in BOOLEAN : MailSet(r, sent)
    \/ \E token \in mail_tokens \cup {ForgedMailToken} : MailConfirm(token)
    \/ MailTick

SpecMail == MailInit /\ [][MailNext]_vars

\* ---------------------------------------------------------- account update
\* Account.patch next to login and email confirmation, on the seeded account
\* and one account that has registered; the requests are served one after
\* the other.  first_name and last_name are stored and never read.
\* email_regexp, on the values a request can carry
email_regexp(s) == s \in MailEmails

PatchEmails == {"None", "not-an-email"} \cup MailEmails

\* mutant: a replaced email has to be confirmed again
AccountPatch_unverifying(tok, email) ==
    LET v == verify_jwt_in_request(tok, TRUE, FALSE, TRUE, FALSE, redis, now)
        user == get_user_by_uuid(users, tok.sub)
        reply(status) == Response("account_patch", status, tok.jti, NoJti, NoJti)
    IN
    /\ UNCHANGED <<tokens, redis, now, nextJti, loggedOut>>
    /\ IF v # Proceed
       THEN resp' = reply(v) /\ UNCHANGED users
       ELSE IF email # "None" /\ ~email_regexp(email)
       THEN resp' = reply(BadRequest) /\ UNCHANGED users
       ELSE IF email = "None"
       THEN resp' = reply(Ok) /\ UNCHANGED users
       ELSE IF user = NoUser
       THEN resp' = reply(InternalError) /\ UNCHANGED users
       ELSE IF \E u \in DOMAIN users : u # user /\ users[u].email = email
       THEN resp' = reply(InternalError) /\ UNCHANGED users
       ELSE /\ users' = [users EXCEPT ![user].email = email,
                                      ![user].email_verified = FALSE]
            /\ resp' = reply(Ok)

\* Account.patch: jwt_required(fresh=True), arg_parser(optional_args), then
\* every argument sent is assigned to the row and committed; users.email is
\* unique, so an email another row holds fails the commit (rollback, 500)
AccountPatch(tok, email) ==
    LET v == verify_jwt_in_request(tok, TRUE, FALSE, TRUE, FALSE, redis, now)
        user == get_user_by_uuid(users, tok.sub)
        reply(status) == Response("account_patch", status, tok.jti, NoJti, NoJti)
    IN
    /\ UNCHANGED <<tokens, redis, now, nextJti, loggedOut>>
    /\ IF v # Proceed
       THEN resp' = reply(v) /\ UNCHANGED users
       ELSE IF email # "None" /\ ~email_regexp(email)
       THEN resp' = reply(BadRequest) /\ UNCHANGED users
       ELSE IF email = "None"
       THEN resp' = reply(Ok) /\ UNCHANGED users
       ELSE IF user = NoUser
       THEN resp' = reply(InternalError) /\ UNCHANGED users
       ELSE IF \E u \in DOMAIN users : u # user /\ users[u].email = email
       THEN resp' = reply(InternalError) /\ UNCHANGED users
       ELSE /\ users' = [users EXCEPT ![user].email = email]
            /\ resp' = reply(Ok)

AccountNext ==
    \/ \E e \in Emails, p \in Passwords :
           Login(e, p) /\ UNCHANGED <<reqs, api_keys, performed, mail_tokens>>
    \/ \E tok \in Presentable, e \in PatchEmails :
           AccountPatch(tok, e) /\ UNCHANGED <<reqs, api_keys, performed, mail_tokens>>
    \/ \E e \in MailEmails : MailLookup(1, e)
    \/ \E sent \in BOOLEAN : MailSet(1, sent)
    \/ \E token \in mail_tokens \cup {ForgedMailToken} : MailConfirm(token)
    \/ MailTick

SpecAccount == MailInit /\ [][AccountNext]_vars

\* ------------------------------------------------- after account deletion
\* The seeded account has logged in; it logs in again, asks for its deletion
\* and goes on using its tokens, on a handler behind authenticator and on
\* handlers behind jwt_required alone.
\* Account.get: jwt_required(), then the row is read
AccountGet(tok) ==
    LET v == verify_jwt_in_request(tok, FALSE, FALSE, TRUE, FALSE, redis, now)
        user == get_user_by_uuid(users, tok.sub)
        status == IF v # Proceed THEN v
                  ELSE IF user = NoUser THEN NotFound
                  ELSE Ok
    IN
    /\ resp' = Response("account_get", status, tok.jti, NoJti, NoJti)
    /\ UNCHANGED <<users, tokens, redis, now, nextJti, loggedOut>>

\* ApiKey.get: jwt_required(), then the keys of the subject are listed
ApiKeyGet(tok) ==
    LET v == verify_jwt_in_request(tok, FALSE, FALSE, TRUE, FALSE, redis, now)
    IN
    /\ resp' = Response("api_key_get", IF v # Proceed THEN v ELSE Ok,
                        tok.jti, NoJti, NoJti)
    /\ UNCHANGED <<users, tokens, redis, now, nextJti, loggedOut>>

DeletedInit ==
    /\ users = (1 :> SeedUser)
    /\ tokens = {create_refresh_token(1, 1, 0), FreshAccessToken}
    /\ redis = EmptyRedis
    /\ now = 0
    /\ nextJti = 3
    /\ resp = Response("login", Ok, NoJti, FreshAccessToken.jti, 1)
    /\ loggedOut = {}
    /\ reqs = <<>>
    /\ api_keys = SeedApiKeys
    /\ performed = NoOperation
    /\ mail_tokens = {}

DeletedNext ==
    \/ \E e \in Emails, p \in Passwords :
           Login(e, p) /\ UNCHANGED <<reqs, api_keys, performed, mail_tokens>>
    \/ \E tok \in Presentable :
           FineTuningGet(tok) /\ UNCHANGED <<reqs, api_keys, performed, mail_tokens>>
    \/ \E tok \in Presentable :
           AccountGet(tok) /\ UNCHANGED <<reqs, api_keys, performed, mail_tokens>>
    \/ \E tok \in Presentable :
           ApiKeyGet(tok) /\ UNCHANGED <<reqs, api_keys, performed, mail_tokens>>
    \/ \E tok \in Presentable, e \in {"None", "x@y.net"} :
           AccountPatch(tok, e) /\ UNCHANGED <<reqs, api_keys, performed, mail_tokens>>
    \/ \E tok \in Presentable, a \in WellFormedAnswers, rr \in StatedReasons :
           AccountDelete(tok, a, rr) /\ UNCHANGED <<reqs, mail_tokens>>
    \/ Tick /\ UNCHANGED <<reqs, api_keys, performed, mail_tokens>>

SpecDeleted == DeletedInit /\ [][DeletedNext]_vars

\* ------------------------------------------------ logout and account state
\* The seeded account has logged in; it may then be blocked from outside or
\* ask for its own deletion, and it logs out with the tokens it holds.
LogoutNext ==
    \/ \E tok \in Presentable :
           Logout(tok) /\ UNCHANGED <<reqs, api_keys, performed, mail_tokens>>
    \/ \E tok \in Presentable, a \in WellFormedAnswers, rr \in StatedReasons :
           AccountDelete(tok, a, rr) /\ UNCHANGED <<reqs, mail_tokens>>
    \/ \E u \in DOMAIN users, until \in {NoTime, BlockEnd} :
           AdminBlock(u, until) /\ UNCHANGED <<reqs, api_keys, performed, mail_tokens>>
    \/ Tick /\ UNCHANGED <<reqs, api_keys, performed, mail_tokens>>

SpecLogout == DeletedInit /\ [][LogoutNext]_vars

\* ------------------------------------------- generate_math_problem, stepwise
\* One call after another.  reqs holds the frame of the running call (the
\* position in the loop and its locals), resp what the call has returned.
MathFrame(pc, num1, operation, num2, result) ==
    [pc |-> pc, num1 |-> num1, operation |-> operation, num2 |-> num2,
     result |-> result]

NoReturn == [problem |-> NoProblem, result |-> 0]

\* random.randint twice, random.choice
MathDraw(num1, operation, num2) ==
    /\ reqs.pc \in {"draw", "returned"}
    /\ reqs' = MathFrame("calculate", num1, operation, num2, 0)
    /\ resp' = NoReturn
    /\ UNCHANGED <<users, tokens, redis, now, nextJti, loggedOut,
                   api_keys, performed, mail_tokens>>

\* the if/elif chain: a result, or continue
MathCalculate ==
    /\ reqs.pc = "calculate"
    /\ LET c == Calculate(reqs.num1, reqs.operation, reqs.num2)
       IN reqs' = IF c.skip THEN [reqs EXCEPT !.pc = "draw"]
                  ELSE [reqs EXCEPT !.pc = "range", !.result = c.result]
    /\ UNCHANGED <<users, tokens, redis, now, nextJti, resp, loggedOut,
                   api_keys, performed, mail_tokens>>

\* if 1 <= result <= 1000: return problem, result; else the loop goes on
MathRange ==
    /\ reqs.pc = "range"
    /\ IF 1 <= reqs.result /\ reqs.result <= MaxOperand
       THEN /\ reqs' = [reqs EXCEPT !.pc = "returned"]
            /\ resp' = [problem |-> ProblemText(reqs.num1, reqs.operation,
                                                reqs.num2),
                        result |-> reqs.result]
       ELSE /\ reqs' = [reqs EXCEPT !.pc = "draw"]
            /\ UNCHANGED resp
    /\ UNCHANGED <<users, tokens, redis, now, nextJti, loggedOut, api_keys,
                   performed, mail_tokens>>

MathInit ==
    /\ users = (1 :> SeedUser)
    /\ tokens = {}
    /\ redis = EmptyRedis
    /\ now = 0
    /\ nextJti = 1
    /\ resp = NoReturn
    /\ loggedOut = {}
    /\ reqs = MathFrame("draw", 0, "none", 0, 0)
    /\ api_keys = SeedApiKeys
    /\ performed = NoOperation
    /\ mail_tokens = {}

MathNext ==
    \/ \E num1 \in 1..MaxOperand, operation \in {"+", "-", "*", "/"},
          num2 \in 1..MaxOperand : MathDraw(num1, operation, num2)
    \/ MathCalculate
    \/ MathRange

SpecMath == MathInit /\ [][MathNext]_vars

\* =================================================================== claims
\* the parameter combinations of the gate: fresh and refresh
GateConfigs == [fresh : BOOLEAN, refresh : BOOLEAN]
AccessGate == [fresh |-> FALSE, refresh |-> FALSE]
RefreshGate == [fresh |-> FALSE, refresh |-> TRUE]

\* one evaluation of the gate (type verified, revocation checked) in this state
Gate(tok, g) == authenticator(tok, g.fresh, g.refresh, TRUE, FALSE, users, redis, now)

\* tok is of the type g asks for and as fresh as g asks
Meets(tok, g) == ((tok.type = "refresh") = g.refresh) /\ (g.fresh => tok.fresh)

Revoked(tok) == now < redis.blocklist[tok.jti]

\* the account passes the account-state checks at time t
GoodStanding(row, t) ==
    /\ row.email_verified
    /\ ~row.is_deleted
    /\ row.is_blocked => (row.blocked_until # NoTime /\ row.blocked_until <= t)

PasswordMatches(e, p) ==
    /\ get_user_by_email(users, e) # NoUser
    /\ check_password_hash(users[get_user_by_email(users, e)].password, p)

C2_Login ==
    [][\A e \in Emails, p \in Passwords :
        Login(e, p) =>
            /\ ~PasswordMatches(e, p) =>
                   /\ resp'.status = Unauthorized
                   /\ tokens' = tokens /\ users' = users
                   /\ resp'.access = NoJti /\ resp'.refresh = NoJti
            /\ (PasswordMatches(e, p)
                  /\ GoodStanding(users[get_user_by_email(users, e)], now)) =>
                   LET a == TokenIn(tokens', resp'.access)
                       r == TokenIn(tokens', resp'.refresh) IN
                   /\ resp'.status = Ok
                   /\ tokens' \ tokens = {a, r} /\ a # r
                   /\ a.type = "access" /\ a.fresh /\ a.refresh_jti = r.jti
                   /\ r.type = "refresh"
                   /\ a.sub = get_user_by_email(users, e) /\ r.sub = a.sub
      ]_vars

C2_Witness ==
    /\ resp.op = "login" /\ resp.status = Ok
    /\ TokenOf(resp.access).fresh
    /\ TokenOf(resp.refresh).type = "refresh"

\* C3: a successful Logout with access token A leaves both A's jti and the
\* jti named by A's refresh_jti claim in the blocklist; from then on the
\* access gate answers 401 to A and Refresh answers 401 to that refresh token.
C3_PairRevoked ==
    /\ [][\A tok \in tokens :
            (Logout(tok) /\ resp'.status = Ok) =>
                /\ tok.refresh_jti # NoJti
                /\ now < redis'.blocklist[tok.jti]
                /\ now < redis'.blocklist[tok.refresh_jti]
         ]_vars
    /\ [](\A a \in tokens :
            a.jti \in loggedOut =>
                /\ Gate(a, AccessGate).status = Unauthorized
                /\ Gate(TokenOf(a.refresh_jti), RefreshGate).status = Unauthorized)

\* after a logout the linked refresh token, still unexpired, was refused by Refresh
C3_Witness ==
    \E a \in tokens :
        /\ a.jti \in loggedOut
        /\ now < TokenOf(a.refresh_jti).exp
        /\ resp.op = "refresh" /\ resp.tok = a.refresh_jti
        /\ resp.status = Unauthorized

\* C4: Logout presented with a valid, unrevoked refresh token of an account
\* in good standing answers 200 and puts that token's jti in the blocklist.
C4_LogoutAcceptsRefresh ==
    [][\A tok \in tokens :
        (/\ Logout(tok)
         /\ tok.type = "refresh" /\ now < tok.exp /\ ~Revoked(tok)
         /\ tok.sub \in DOMAIN users /\ GoodStanding(users[tok.sub], now)) =>
            /\ resp'.status = Ok
            /\ now < redis'.blocklist[tok.jti]
      ]_vars

\* C5 as stated: Refresh answers 401 to every access token and mints nothing;
\* to a valid, unrevoked refresh token of an account in good standing it
\* answers with one new access token, fresh = FALSE, linked to that token.
RefreshIssues(tok) ==
    LET a == TokenIn(tokens', resp'.access) IN
    /\ resp'.status = Ok
    /\ tokens' \ tokens = {a}
    /\ a.type = "access" /\ ~a.fresh
    /\ a.refresh_jti = tok.jti /\ a.sub = tok.sub

ValidRefreshToken(tok) ==
    /\ tok.type = "refresh" /\ now < tok.exp /\ ~Revoked(tok)
    /\ tok.sub \in DOMAIN users /\ GoodStanding(users[tok.sub], now)

C9_ExpiredBlockCleared ==
    \A r \in DOMAIN reqs :
        (reqs[r].pc = "done" /\ reqs[r].checkedAt > BlockEnd) =>
            /\ reqs[r].status = Proceed
            /\ ~users[TheUser].is_blocked
            /\ users[TheUser].blocked_reason = NoReason
            /\ users[TheUser].blocked_until = NoTime

\* a login and a gated request both read the blocked row before either had
\* committed, both cleared it, and both are done
C9_Witness ==
    /\ \A r \in Requests :
           /\ reqs[r].pc = "done" /\ reqs[r].checkedAt > BlockEnd
           /\ reqs[r].wrote
    /\ \E r \in Requests : reqs[r].kind = "login"
    /\ \E r \in Requests : reqs[r].kind = "gate"

\* C7: for a token that passed the signature, type, freshness and revocation
\* checks the gate's answer is the first that applies of: no account -> 401,
\* not verified -> 403, deleted -> 410, blocked until a future instant ->
\* 423, otherwise the handler runs.
C7_Expected(tok) ==
    IF tok.sub \notin DOMAIN users THEN Unauthorized
    ELSE IF ~users[tok.sub].email_verified THEN Forbidden
    ELSE IF users[tok.sub].is_deleted THEN Gone
    ELSE IF /\ users[tok.sub].is_blocked
            /\ users[tok.sub].blocked_until # NoTime
            /\ users[tok.sub].blocked_until > now THEN Locked
    ELSE Proceed

C7_AccountStateOrder ==
    \A tok \in tokens, g \in GateConfigs :
        verify_jwt_in_request(tok, g.fresh, g.refresh, TRUE, FALSE, redis, now)
            = Proceed
        => Gate(tok, g).status = C7_Expected(tok)

\* C8: once the password has matched, Login answers what the gate's account
\* check answers for the same row at the same time (200 where the gate lets
\* the request through) and leaves the users table as the gate would; a
\* wrong password answers 401 whatever the row holds.
C8_LoginMatchesGate ==
    [][\A e \in Emails, p \in Passwords :
        Login(e, p) =>
            IF PasswordMatches(e, p)
            THEN LET g == GateAccountCheck(users, get_user_by_email(users, e), now)
                 IN /\ resp'.status = IF g.status = Proceed THEN Ok ELSE g.status
                    /\ users' = g.users
            ELSE resp'.status = Unauthorized /\ users' = users
      ]_vars

\* Login with the right password was answered 423
C8_Witness ==
    /\ resp.op = "login" /\ resp.status = Locked
    /\ \E u \in DOMAIN users : users[u].is_blocked /\ users[u].blocked_until > now

\* the token passes jwt_required(fresh=True)
FreshGatePasses(tok) ==
    verify_jwt_in_request(tok, TRUE, FALSE, TRUE, FALSE, redis, now) = Proceed

\* redis' holds, for the account, the answer of the problem the response shows
ChallengeIssued(sub) ==
    /\ resp'.status = Accepted
    /\ \E p \in generate_math_problem :
          /\ resp'.problem = p.problem
          /\ redis'.captcha[sub] = [val |-> str(p.result),
                                    exp |-> now + CaptchaDuration]
    /\ RedisGetCaptcha(redis', sub, now).found

\* the previous request was answered 202 and its challenge is still stored
ChallengePending(tok) ==
    /\ resp.status = Accepted
    /\ TokenOf(resp.tok).sub = tok.sub
    /\ RedisGetCaptcha(redis, tok.sub, now).found

\* the previous request executed a guarded operation on the answer a
JustPerformed(tok, a) ==
    /\ resp.status = Ok
    /\ resp.op \in {"account_delete", "api_key_delete"}
    /\ performed.sub = tok.sub
    /\ performed.answer = a

\* C10: CAPTCHA one-time use, for requests that pass the fresh-token gate and
\* whose other arguments are well formed.  (1) A guarded request with no answer
\* returns 202 with a problem, stores that problem's answer and executes
\* nothing.  (2) When the previous request issued a challenge that is still
\* stored, a request submitting the stored answer A, with a removal reason
\* (account deletion) or the uuid of an existing key (key deletion), returns
\* 200, executes the operation and deletes the stored challenge.  (3) When the
\* previous request executed on A, a request submitting the same A returns 202,
\* executes nothing and stores a new challenge.
C10_CaptchaOneTimeUse ==
    [][ \A tok \in Presentable, a \in CaptchaAnswers :
          /\ \A rr \in RemovalReasons :
               AccountDelete(tok, a, rr) /\ FreshGatePasses(tok) =>
                 /\ (a = NoArg /\ (rr = NoArg \/ removal_reason_regexp(rr))) =>
                       /\ ChallengeIssued(tok.sub)
                       /\ UNCHANGED <<users, api_keys, performed>>
                 /\ ( /\ ChallengePending(tok)
                      /\ a = redis.captcha[tok.sub].val
                      /\ rr # NoArg /\ removal_reason_regexp(rr) ) =>
                       /\ resp'.status = Ok
                       /\ users'[tok.sub].is_deleted
                       /\ users'[tok.sub].removal_reason = rr
                       /\ redis'.captcha[tok.sub] = NoKey
                 /\ ( /\ JustPerformed(tok, a)
                      /\ rr = NoArg \/ removal_reason_regexp(rr) ) =>
                       /\ ChallengeIssued(tok.sub)
                       /\ UNCHANGED <<users, api_keys, performed>>
          /\ \A u \in UuidArgs :
               ApiKeyDelete(tok, a, u) /\ FreshGatePasses(tok) =>
                 /\ (a = NoArg) =>
                       /\ ChallengeIssued(tok.sub)
                       /\ UNCHANGED <<users, api_keys, performed>>
                 /\ ( /\ ChallengePending(tok)
                      /\ a = redis.captcha[tok.sub].val
                      /\ u \in DOMAIN api_keys ) =>
                       /\ resp'.status = Ok
                       /\ api_keys'[u].is_deleted
                       /\ redis'.captcha[tok.sub] = NoKey
                 /\ JustPerformed(tok, a) =>
                       /\ ChallengeIssued(tok.sub)
                       /\ UNCHANGED <<users, api_keys, performed>>
      ]_vars

\* an answer that deleted the account has been resubmitted: the request got a
\* new challenge and the stored answer is the new one
C10_Witness ==
    /\ resp.op = "account_delete"
    /\ resp.status = Accepted
    /\ resp.answer # NoArg
    /\ performed = [op |-> "account_delete", sub |-> TokenOf(resp.tok).sub,
                    answer |-> resp.answer]
    /\ users[performed.sub].is_deleted
    /\ RedisGetCaptcha(redis, performed.sub, now).found

\* the request changes a table or answers 200
Executes ==
    resp'.status = Ok \/ users' # users \/ api_keys' # api_keys

\* the answer a is the one stored, unexpired, for the token's account
MatchesStored(tok, a) ==
    /\ RedisGetCaptcha(redis, tok.sub, now).found
    /\ a = RedisGetCaptcha(redis, tok.sub, now).val

\* no answer, or a well-formed answer that meets no stored challenge or
\* differs from the stored one
Unanswered(tok, a) ==
    \/ a = NoArg
    \/ math_captcha_answer_regexp(a) /\ ~MatchesStored(tok, a)

\* C11: account deletion and API-key deletion execute only in a request that
\* passes the fresh-token gate and whose captcha_answer equals the unexpired
\* answer stored for the account; a request with no answer, with an answer but
\* no stored (or an expired) challenge, or with a well-formed answer that
\* differs from the stored one executes nothing, stores the answer of a newly
\* generated problem in place of any old one and returns 202 (for account
\* deletion: provided removal_reason, if sent, is well formed).
C11_ExecutesOnlyOnStoredAnswer ==
    [][ \A tok \in Presentable, a \in CaptchaAnswers :
          /\ \A rr \in RemovalReasons :
               AccountDelete(tok, a, rr) =>
                 /\ Executes => FreshGatePasses(tok) /\ MatchesStored(tok, a)
                 /\ ( /\ FreshGatePasses(tok)
                      /\ Unanswered(tok, a)
                      /\ rr = NoArg \/ removal_reason_regexp(rr) ) =>
                       /\ ChallengeIssued(tok.sub)
                       /\ UNCHANGED <<users, api_keys, performed>>
          /\ \A u \in UuidArgs :
               ApiKeyDelete(tok, a, u) =>
                 /\ Executes => FreshGatePasses(tok) /\ MatchesStored(tok, a)
                 /\ (FreshGatePasses(tok) /\ Unanswered(tok, a)) =>
                       /\ ChallengeIssued(tok.sub)
                       /\ UNCHANGED <<users, api_keys, performed>>
      ]_vars

\* a well-formed answer was refused: the request got 202 with a new challenge
\* (whose answer differs from the one submitted) and nothing has executed
C11_Witness ==
    /\ resp.status = Accepted
    /\ math_captcha_answer_regexp(resp.answer)
    /\ RedisGetCaptcha(redis, TokenOf(resp.tok).sub, now).found
    /\ resp.answer # RedisGetCaptcha(redis, TokenOf(resp.tok).sub, now).val
    /\ performed = NoOperation
    /\ \A u \in DOMAIN users : ~users[u].is_deleted
    /\ \A k \in DOMAIN api_keys : ~api_keys[k].is_deleted

\* C12: challenges are keyed by account and purpose.  When the previous request
\* issued a challenge for one guarded operation and that challenge is still
\* stored, a request for the other guarded operation of the same account
\* neither executes on it nor replaces it.
C12_PurposeKeyed ==
    [][ \A tok \in Presentable, a \in CaptchaAnswers :
          /\ \A u \in UuidArgs :
               ( /\ ApiKeyDelete(tok, a, u)
                 /\ ChallengePending(tok)
                 /\ resp.op = "account_delete" ) =>
                   /\ ~Executes
                   /\ redis'.captcha[tok.sub] = redis.captcha[tok.sub]
          /\ \A rr \in RemovalReasons :
               ( /\ AccountDelete(tok, a, rr)
                 /\ ChallengePending(tok)
                 /\ resp.op = "api_key_delete" ) =>
                   /\ ~Executes
                   /\ redis'.captcha[tok.sub] = redis.captcha[tok.sub]
      ]_vars

\* C13: an account deletion that passes the fresh-token gate with the stored
\* answer but without removal_reason returns 400 and changes neither the
\* account nor the stored challenge; when the previous request was such a 400
\* and the challenge is still stored, submitting the same answer with a
\* removal reason returns 200 and marks the account deleted with that reason.
C13_MissingReasonKeepsChallenge ==
    [][ \A tok \in Presentable, a \in CaptchaAnswers, rr \in RemovalReasons :
          ( /\ AccountDelete(tok, a, rr)
            /\ FreshGatePasses(tok)
            /\ MatchesStored(tok, a) ) =>
              /\ (rr = NoArg) =>
                    /\ resp'.status = BadRequest
                    /\ UNCHANGED <<users, redis, api_keys, performed>>
              /\ ( /\ resp.op = "account_delete"
                   /\ resp.status = BadRequest
                   /\ resp.answer = a
                   /\ TokenOf(resp.tok).sub = tok.sub
                   /\ rr # NoArg /\ removal_reason_regexp(rr) ) =>
                    /\ resp'.status = Ok
                    /\ users'[tok.sub].is_deleted
                    /\ users'[tok.sub].removal_reason = rr
      ]_vars

\* account deletion was answered 400 on removal_reason although the submitted
\* answer is the stored one: the challenge is still there, the account too
C13_Witness ==
    /\ resp.op = "account_delete"
    /\ resp.status = BadRequest
    /\ MatchesStored(TokenOf(resp.tok), resp.answer)
    /\ ~users[TokenOf(resp.tok).sub].is_deleted

\* C14: tokens never change once minted; a token with fresh = true is an access
\* token minted by the Login that is being answered; Refresh mints only access
\* tokens with fresh = false; and account deletion presented with an access
\* token that is not fresh (every token obtained through Refresh) answers 401
\* without touching the account, the challenge store or the keys.
C14_FreshOnlyFromLogin ==
    [][ /\ tokens \subseteq tokens'
        /\ \A t \in tokens' \ tokens :
              t.fresh => /\ t.type = "access"
                         /\ resp'.op = "login"
                         /\ resp'.access = t.jti
        /\ \A tok \in Presentable :
              Refresh(tok) =>
                 \A t \in tokens' \ tokens : t.type = "access" /\ ~t.fresh
        /\ \A tok \in Presentable, a \in WellFormedAnswers, rr \in StatedReasons :
              ( /\ AccountDelete(tok, a, rr)
                /\ tok.type = "access"
                /\ ~tok.fresh ) =>
                 /\ resp'.status = Unauthorized
                 /\ UNCHANGED <<users, redis, api_keys, performed>>
      ]_vars

\* account deletion has just refused, with 401, an unexpired access token that
\* Refresh minted
C14_Witness ==
    /\ resp.op = "account_delete"
    /\ resp.status = Unauthorized
    /\ TokenOf(resp.tok).type = "access"
    /\ ~TokenOf(resp.tok).fresh
    /\ TokenOf(resp.tok).refresh_jti # NoJti
    /\ now < TokenOf(resp.tok).exp
    /\ ~Revoked(TokenOf(resp.tok))

\* C15: a registration whose lookup finds the email is answered 409 and leaves
\* the users table unchanged; an insert adds one account at most, and when it
\* does the account carries the request's email and hashed password and is
\* unverified, not deleted and not blocked; a Login with the credentials of an
\* unverified account is answered 403; and at no time do two accounts share an
\* email, however the two requests interleave.
C15_Registration ==
    /\ [][ /\ \A r \in Requests, e \in RegEmails, p \in Passwords :
                RegLookup(r, e, p) /\ get_user_by_email(users, e) # NoUser =>
                   /\ reqs'[r].pc = "done"
                   /\ reqs'[r].status = Conflict
                   /\ users' = users
           /\ \A r \in Requests :
                RegInsert(r) =>
                   \/ /\ get_user_by_email(users, reqs[r].email) # NoUser
                      /\ users' = users
                      /\ reqs'[r].status # Created
                   \/ /\ get_user_by_email(users, reqs[r].email) = NoUser
                      /\ reqs'[r].status = Created
                      /\ \E u \in DOMAIN users' \ DOMAIN users :
                            /\ DOMAIN users' = DOMAIN users \cup {u}
                            /\ users'[u] = UserRow(reqs[r].email,
                                  generate_password_hash(reqs[r].password),
                                  FALSE, FALSE, FALSE, NoReason, NoTime)
                      /\ \A u \in DOMAIN users : users'[u] = users[u]
           /\ \A e \in RegEmails, p \in Passwords :
                ( /\ Login(e, p)
                  /\ PasswordMatches(e, p)
                  /\ ~users[get_user_by_email(users, e)].email_verified ) =>
                   /\ resp'.status = Forbidden
                   /\ tokens' = tokens
         ]_vars
    /\ [](\A u, v \in DOMAIN users :
             users[u].email = users[v].email => u = v)

\* two registrations for one email were both past the lookup: one account
\* exists, one request was answered 201 and the other 500; a Login for the new
\* account has been answered 403
C15_Witness ==
    /\ \E r, q \in Requests :
          /\ r # q
          /\ reqs[r].pc = "done" /\ reqs[q].pc = "done"
          /\ reqs[r].email = reqs[q].email
          /\ reqs[r].status = Created
          /\ reqs[q].status = InternalError
    /\ resp.op = "login"
    /\ resp.status = Forbidden

\* C16: for one email, two confirmation tokens are never issued within one
\* validity window (each token is signed at least MAIL_TOKEN_EXP after the one
\* before it), and a request whose lookup finds the marker alive is answered
\* 429 and issues nothing.
C16_OneTokenPerWindow ==
    /\ [](\A t1, t2 \in mail_tokens :
             (t1.email = t2.email /\ t1.serial < t2.serial) =>
                t1.iat + MailTokenExp <= t2.iat)
    /\ [][ \A r \in Requests, e \in MailEmails :
             ( /\ MailLookup(r, e)
               /\ get_user_by_email(users, e) # NoUser
               /\ ~users[get_user_by_email(users, e)].email_verified
               /\ RedisGetMail(redis, e, now) # "None" ) =>
                /\ reqs'[r].status = TooManyRequests
                /\ reqs'[r].pc = "done"
         ]_vars

\* the printed problem read back: the text before the first blank, the
\* operator after it, the text between the second and the third blank
Blanks(text) == {i \in 1..Len(text) : text[i] = " "}

NthBlank(text, n) ==
    CHOOSE i \in Blanks(text) : Cardinality({j \in Blanks(text) : j < i}) = n - 1

Parsed(text) ==
    [left |-> int(SubSeq(text, 1, NthBlank(text, 1) - 1)),
     operator |-> text[NthBlank(text, 1) + 1],
     right |-> int(SubSeq(text, NthBlank(text, 2) + 1, NthBlank(text, 3) - 1))]

\* v is the exact value of the problem (for a division: no remainder is lost)
ExactValue(text, v) ==
    LET q == Parsed(text) IN
    CASE q.operator = "+" -> v = q.left + q.right
      [] q.operator = "-" -> v = q.left - q.right
      [] q.operator = "*" -> v = q.left * q.right
      [] q.operator = "/" -> v * q.right = q.left

\* C17: whatever generate_math_problem returns, the printed operands lie in
\* the range drawn from, the result is the exact value of the printed problem
\* and an integer of the range, a printed division leaves no remainder, and
\* the pair is one of the problems the captcha flow chooses from.
C17_MathProblemExact ==
    resp # NoReturn =>
       /\ Parsed(resp.problem).left \in 1..MaxOperand
       /\ Parsed(resp.problem).right \in 1..MaxOperand
       /\ Parsed(resp.problem).operator \in {"+", "-", "*", "/"}
       /\ ExactValue(resp.problem, resp.result)
       /\ resp.result \in 1..MaxOperand
       /\ (Parsed(resp.problem).operator = "/" =>
              Parsed(resp.problem).left % Parsed(resp.problem).right = 0)
       /\ resp \in MathProblems(MaxOperand)

\* a call has returned a division of a two-digit operand by a divisor other
\* than 1 and itself
C17_Witness ==
    /\ reqs.pc = "returned"
    /\ resp # NoReturn
    /\ Parsed(resp.problem).operator = "/"
    /\ Parsed(resp.problem).left >= 10
    /\ Parsed(resp.problem).right > 1
    /\ resp.result > 1

\* C18: a Refresh mints no refresh token and leaves redis as it was; after a
\* Refresh that answered 200 the refresh token it was given still passes the
\* refresh gate, so the next Refresh with it is served as well.
C18_RefreshNotRotated ==
    [][ \A tok \in Presentable :
          Refresh(tok) =>
             /\ redis' = redis
             /\ \A t \in tokens' \ tokens : t.type # "refresh"
             /\ (resp'.status = Ok =>
                   /\ tok \in tokens'
                   /\ authenticator(tok, FALSE, TRUE, TRUE, FALSE,
                                    users', redis', now').status = Proceed)
      ]_vars

\* one refresh token has been used for two Refresh calls: two access tokens
\* that are not fresh name it, and it is still neither expired nor revoked
C18_Witness ==
    \E t1, t2 \in tokens :
       /\ t1.jti # t2.jti
       /\ t1.type = "access" /\ ~t1.fresh
       /\ t2.type = "access" /\ ~t2.fresh
       /\ t1.refresh_jti = t2.refresh_jti
       /\ now < TokenOf(t1.refresh_jti).exp
       /\ ~Revoked(TokenOf(t1.refresh_jti))

\* the session of a token: the jti of the refresh token its Login minted
Session(t) == IF t.type = "refresh" THEN t.jti ELSE t.refresh_jti

GateFailures == {Unauthorized, Forbidden, Gone, Locked}

\* a handler behind authenticator serves one request carrying tok
GatedRequest(tok) == Refresh(tok) \/ Logout(tok) \/ FineTuningGet(tok)

\* account u is under a block that has run out
BlockExpired(u) ==
    /\ users[u].is_blocked
    /\ users[u].blocked_until # NoTime
    /\ users[u].blocked_until <= now

\* C21: a request that the gate answers with 401, 403, 410 or 423 changes
\* neither the user table nor redis and runs no handler (no token is minted,
\* nothing is revoked); whenever a gated request changes the user table at
\* all, the change is exactly the clearing of the three block fields of the
\* token's account, whose block had expired; in particular a 423 leaves
\* is_blocked, blocked_reason and blocked_until as they were.  (Every
\* response names the token it answers.)
C21_GateFailuresSideEffectFree ==
    [][\A tok \in Presentable :
          (resp'.tok = tok.jti /\ GatedRequest(tok)) =>
              /\ resp'.status \in GateFailures =>
                     UNCHANGED <<users, redis, tokens, nextJti, loggedOut>>
              /\ users' # users =>
                     /\ tok.sub \in DOMAIN users
                     /\ BlockExpired(tok.sub)
                     /\ users' = ClearBlock(users, tok.sub)
              /\ resp'.status = Locked =>
                     \A u \in DOMAIN users :
                         /\ users'[u].is_blocked = users[u].is_blocked
                         /\ users'[u].blocked_reason = users[u].blocked_reason
                         /\ users'[u].blocked_until = users[u].blocked_until
      ]_vars

\* a logout was refused with 423 and the account is still under its block
C21_Witness ==
    /\ resp.op = "logout"
    /\ resp.status = Locked
    /\ resp.tok # NoJti
    /\ users[TokenOf(resp.tok).sub].is_blocked
    /\ users[TokenOf(resp.tok).sub].blocked_until > now

\* the requests the challenge check has let through to the guarded operation
Authorized ==
    {r \in Requests : \/ reqs[r].pc = "authorized"
                      \/ reqs[r].pc = "done" /\ reqs[r].result.found
                         /\ reqs[r].status \in {Ok, NotFound}
                      \/ reqs[r].pc = "done" /\ reqs[r].result.found
                         /\ reqs[r].status = BadRequest
                         /\ reqs[r].op = "api_key_delete"}

\* C22: of two requests in flight while one challenge is stored, at most
\* one is let through to the guarded operation, however their lookups and
\* deletes of the key interleave (the second request can only be served by
\* a challenge issued after the first one consumed its own, and no request
\* is left to issue it).
C22_OneOperationPerChallenge == Cardinality(Authorized) <= 1

\* a refused attempt leaves no trace but the new challenge: the answer of the
\* problem it returns is stored with the full duration, whatever was stored
\* and however many attempts came before, and nothing else is written
RefusedWithoutTrace(sub) ==
    /\ ChallengeIssued(sub)
    /\ UNCHANGED <<users, tokens, api_keys, performed, loggedOut, nextJti, now>>
    /\ redis'.blocklist = redis.blocklist
    /\ redis'.mail = redis.mail

\* C23: no lockout.  In every state the flow can reach, hence after any
\* number of refused attempts: (1) a request that passes the fresh-token gate
\* and submits the answer stored, unexpired, for its account is let through
\* (account deletion with a well-formed reason returns 200 and deletes the
\* account; key deletion consumes the challenge and reaches the handler,
\* which deletes the key named if it exists); (2) a request answered 202
\* writes nothing but the new challenge; (3) the stored answer only ever
\* changes to the answer of the problem just issued, or to nothing, so the
\* stored answer is that of the most recently issued challenge and the
\* answer of an overwritten one is let through only if it equals it.  (Every
\* response names the token and the answer of its request.)
C23_NoLockout ==
    [][ /\ \A tok \in Presentable, a \in CaptchaAnswers :
          (resp'.tok = tok.jti /\ resp'.answer = a /\ FreshGatePasses(tok)) =>
            /\ \A rr \in RemovalReasons :
                 (resp'.op = "account_delete" /\ AccountDelete(tok, a, rr)) =>
                   /\ ( /\ MatchesStored(tok, a)
                        /\ rr # NoArg /\ removal_reason_regexp(rr) ) =>
                         /\ resp'.status = Ok
                         /\ users'[tok.sub].is_deleted
                         /\ performed' = [op |-> "account_delete",
                                          sub |-> tok.sub, answer |-> a]
                   /\ resp'.status = Accepted => RefusedWithoutTrace(tok.sub)
                   /\ (math_captcha_answer_regexp(a) /\ ~MatchesStored(tok, a)) =>
                         resp'.status \in {Accepted, BadRequest} /\ users' = users
            /\ \A u \in UuidArgs :
                 (resp'.op = "api_key_delete" /\ ApiKeyDelete(tok, a, u)) =>
                   /\ MatchesStored(tok, a) =>
                         /\ resp'.status \in {Ok, BadRequest, NotFound}
                         /\ redis'.captcha[tok.sub] = NoKey
                         /\ u \in DOMAIN api_keys =>
                                resp'.status = Ok /\ api_keys'[u].is_deleted
                   /\ resp'.status = Accepted => RefusedWithoutTrace(tok.sub)
                   /\ (math_captcha_answer_regexp(a) /\ ~MatchesStored(tok, a)) =>
                         resp'.status = Accepted /\ api_keys' = api_keys
        /\ \A sub \in Accounts :
              redis'.captcha[sub] # redis.captcha[sub] =>
                 redis'.captcha[sub] = NoKey \/ ChallengeIssued(sub)
      ]_vars

\* the key was deleted on one challenge and, that challenge being consumed,
\* the account was deleted on a later one, issued by a refused attempt
C23_Witness ==
    /\ api_keys[SeedKeyUuid].is_deleted
    /\ resp.op = "account_delete"
    /\ resp.status = Ok
    /\ performed.op = "account_delete"
    /\ users[performed.sub].is_deleted
    /\ redis.captcha[performed.sub] = NoKey

\* C24: a step that changes email_verified, of any account, is no
\* Account.patch request (so the flag survives a replaced email); no step takes
\* email_verified from true to false; and a step that takes it from false to
\* true is the confirmation of a signed, unexpired token whose email is the
\* email of that account.
C24_EmailVerifiedMonotone ==
    [][ /\ DOMAIN users' = DOMAIN users
        /\ (\E u \in DOMAIN users :
                users'[u].email_verified # users[u].email_verified) =>
              ~ \E tok \in Presentable, e \in PatchEmails : AccountPatch(tok, e)
        /\ \A u \in DOMAIN users :
              /\ users[u].email_verified => users'[u].email_verified
              /\ (~users[u].email_verified /\ users'[u].email_verified) =>
                    \E token \in mail_tokens :
                        /\ MailConfirm(token)
                        /\ confirm_token(token, now) = users[u].email
      ]_vars

\* the registered account confirmed its email, logged in and replaced the
\* email: it is verified under an address that no token was signed for
C24_Witness ==
    /\ resp.op = "account_patch"
    /\ resp.status = Ok
    /\ users[2].email = "x@y.net"
    /\ users[2].email_verified
    /\ \A token \in mail_tokens : token.email # "x@y.net"

\* C25: whenever Login or Refresh adds tokens, the subject of every new token
\* is an account that exists, has email_verified, is not deleted and is under
\* no block that is still running (a block stored with it had expired and is
\* cleared by the same request); requests are served one after the other.
C25_TokensOnlyInGoodStanding ==
    [][ tokens' # tokens =>
          /\ (\E e \in Emails, p \in Passwords : Login(e, p))
                \/ (\E tok \in Presentable : Refresh(tok))
          /\ \A new \in tokens' \ tokens :
                /\ new.sub \in DOMAIN users
                /\ users[new.sub].email_verified
                /\ ~users[new.sub].is_deleted
                /\ ~(users[new.sub].is_blocked /\ users[new.sub].blocked_until > now)
                /\ GoodStanding(users[new.sub], now)
                /\ ~users'[new.sub].is_blocked
      ]_vars

\* a refresh has just minted an access token, late enough for a block of the
\* account to have run out, and the account is in good standing
C25_Witness ==
    /\ resp.op = "refresh"
    /\ resp.status = Ok
    /\ TokenOf(resp.access).sub \in DOMAIN users
    /\ TokenOf(resp.access).exp = now + AccessExp
    /\ now >= BlockEnd
    /\ GoodStanding(users[TokenOf(resp.access).sub], now)

\* the other access tokens minted from the refresh token that tok names
Siblings(tok) ==
    {t \in tokens : /\ t.type = "access"
                    /\ t.refresh_jti = tok.refresh_jti
                    /\ t.jti # tok.jti}

\* C26: a Logout that answers 200 writes the blocklist entries of the
\* presented token's jti and of its refresh_jti and no other key of redis, and
\* mints or drops no token; every other access token minted from the same
\* refresh token keeps its blocklist entry (none, unless it logged out itself)
\* and is answered by every gate as before.
C26_LogoutNotCascading ==
    [][ \A tok \in Presentable :
          Logout(tok) /\ resp'.status = Ok =>
             /\ redis'.blocklist[tok.jti] = now + AccessExp
             /\ redis'.blocklist[tok.refresh_jti] = now + RefreshExp
             /\ \A j \in DOMAIN redis.blocklist \ {tok.jti, tok.refresh_jti} :
                   redis'.blocklist[j] = redis.blocklist[j]
             /\ redis'.captcha = redis.captcha
             /\ redis'.mail = redis.mail
             /\ UNCHANGED <<tokens, nextJti>>
             /\ \A t \in Siblings(tok) :
                   /\ redis'.blocklist[t.jti] = redis.blocklist[t.jti]
                   /\ \A g \in GateConfigs :
                         authenticator(t, g.fresh, g.refresh, TRUE, FALSE,
                                       users', redis', now').status
                           = Gate(t, g).status
      ]_vars

\* an access token has logged out, its refresh token is revoked with it, and
\* an access token minted from the same refresh token still passes the gate
C26_Witness ==
    /\ resp.op = "logout"
    /\ resp.status = Ok
    /\ Revoked(TokenOf(resp.tok))
    /\ Revoked(TokenOf(TokenOf(resp.tok).refresh_jti))
    /\ \E t \in Siblings(TokenOf(resp.tok)) :
          /\ ~Revoked(t)
          /\ now < t.exp
          /\ Gate(t, AccessGate).status = Proceed

\* tok is an unexpired, unrevoked token of an account that is deleted
OutlivesAccount(tok) ==
    /\ tok.sub \in DOMAIN users
    /\ users[tok.sub].is_deleted
    /\ now < tok.exp
    /\ ~Revoked(tok)

ValidAccessToken(tok) ==
    verify_jwt_in_request(tok, FALSE, FALSE, TRUE, FALSE, redis, now) = Proceed

\* the account-state outcome the claim names for a row
RefusedAs(row, t) ==
    IF ~row.email_verified THEN Forbidden
    ELSE IF row.is_deleted THEN Gone
    ELSE IF row.is_blocked /\ row.blocked_until # NoTime /\ row.blocked_until > t
    THEN Locked
    ELSE Proceed

\* C28: (1) for every token that verification accepts and every row the data
\* model allows its account to be, the gate in front of Logout answers 403
\* for an unverified account, else 410 for a deleted one, else 423 for one
\* under a running block, and leaves the row as it is; (2) a Logout answered
\* 403, 410 or 423 writes nothing to redis; (3) a token becomes revoked only
\* in a step taken while the account of the token passes the account checks,
\* so the token of an unverified, deleted or blocked account stays unrevoked
\* for as long as the account stays so.
C28_LogoutBehindGate ==
    /\ [](\A tok \in tokens, row \in UserStates :
            (ValidAccessToken(tok) /\ RefusedAs(row, now) # Proceed) =>
                authenticator(tok, FALSE, FALSE, TRUE, FALSE,
                              (tok.sub :> row), redis, now)
                  = [status |-> RefusedAs(row, now), users |-> (tok.sub :> row)])
    /\ [][ /\ \A tok \in Presentable :
                (resp'.tok = tok.jti /\ Logout(tok)) =>
                   /\ ( /\ ValidAccessToken(tok)
                        /\ RefusedAs(users[tok.sub], now) # Proceed ) =>
                          resp'.status = RefusedAs(users[tok.sub], now)
                   /\ resp'.status \in {Forbidden, Gone, Locked} =>
                          UNCHANGED <<redis, users, tokens, loggedOut>>
           /\ \A tok \in tokens :
                (redis'.blocklist[tok.jti] # redis.blocklist[tok.jti]
                   /\ now' < redis'.blocklist[tok.jti]) =>
                      GoodStanding(users[tok.sub], now)
         ]_vars

\* a logout with a token that verification accepts was refused with 410: the
\* account is deleted and the token is still unrevoked
C28_Witness ==
    /\ resp.op = "logout"
    /\ resp.status = Gone
    /\ ValidAccessToken(TokenOf(resp.tok))
    /\ users[TokenOf(resp.tok).sub].is_deleted
    /\ ~Revoked(TokenOf(resp.tok))
    /\ ~Revoked(TokenOf(TokenOf(resp.tok).refresh_jti))

\* C29: every answer of Login and of a handler behind the gate is the
\* handler's own 200 or one of the outcomes 401, 403, 410, 423 (or the 422 of
\* token verification), whatever row the data model allows the account to
\* be, a block stored without blocked_until included; none is a 500.
C29_NoUnhandledError ==
    resp.op \in {"login", "refresh", "logout", "fine_tuning"} =>
        resp.status \in {Ok, Unauthorized, Forbidden, Gone, Locked, Unprocessable}

\* C30: a key deletion that passes the fresh-token gate and submits the
\* stored, unexpired answer deletes the stored challenge whatever its uuid
\* argument is; with the uuid missing or malformed it returns 400, with the
\* uuid of no existing key 404, and in both cases no key is changed and no
\* operation recorded.  An account deletion submitting the stored answer
\* without a removal reason returns 400 and leaves the challenge stored.
C30_KeyDeletionConsumesFirst ==
    [][ \A tok \in Presentable, a \in CaptchaAnswers :
          (resp'.tok = tok.jti /\ FreshGatePasses(tok) /\ MatchesStored(tok, a)) =>
             /\ \A u \in UuidArgs :
                  ApiKeyDelete(tok, a, u) =>
                     /\ redis'.captcha[tok.sub] = NoKey
                     /\ (u = "None" \/ ~uuid4_regexp(u)) =>
                           /\ resp'.status = BadRequest
                           /\ UNCHANGED <<api_keys, users, performed>>
                     /\ (uuid4_regexp(u) /\ u \notin DOMAIN api_keys) =>
                           /\ resp'.status = NotFound
                           /\ UNCHANGED <<api_keys, users, performed>>
             /\ AccountDelete(tok, a, NoArg) =>
                     /\ resp'.status = BadRequest
                     /\ redis'.captcha[tok.sub] = redis.captcha[tok.sub]
                     /\ redis.captcha[tok.sub] # NoKey
      ]_vars

\* a key deletion with a well-formed answer and the uuid of no key was
\* answered 404: no challenge is stored any more and no key is deleted
C30_Witness ==
    /\ resp.op = "api_key_delete"
    /\ resp.status = NotFound
    /\ math_captcha_answer_regexp(resp.answer)
    /\ redis.captcha[TokenOf(resp.tok).sub] = NoKey
    /\ now < CaptchaDuration
    /\ \A k \in DOMAIN api_keys : ~api_keys[k].is_deleted
    /\ performed = NoOperation

====
